---- MODULE Spec2Model ----
(***************************************************************************)
(* payload-page-tree: hierarchical slugs derived from a folder tree.       *)
(*                                                                         *)
(* The store (folders and documents) is the state; every endpoint handler  *)
(* and every editor write is one action, including the hooks it triggers   *)
(* (field beforeValidate hooks, the collection beforeChange slug builder,  *)
(* the folder afterChange cascade).                                        *)
(*                                                                         *)
(* Strings are sequences of one-character strings, so that slugify, the    *)
(* '/'-join of getFolderPath and the split('/') of restore-slug are        *)
(* computed character by character.  A missing, null or empty text value   *)
(* is the empty sequence (all three are falsy in the source); a missing    *)
(* or null folder reference is NoFolder.  changedAt timestamps of history  *)
(* entries are left out.  Document ids are unique across collections.      *)
(*                                                                         *)
(* The host framework is outside the source.  What is taken from it: a     *)
(* field's beforeValidate hook runs on the incoming value; a field the     *)
(* write does not carry reaches the collection hooks with its stored       *)
(* value; the folder's afterChange hook runs after the folder is stored.   *)
(* Validation of the collection's own fields (a required or unique slug)   *)
(* and the framework's own folder hooks are not part of the model; the     *)
(* tree endpoints create drafts, which skip required-field validation.     *)
(*                                                                         *)
(* The storage decides two things the source leaves to it.  A document     *)
(* write of the cascade may be refused (a validation or database error):   *)
(* the request names the refused documents.  A delete of a folder that is  *)
(* still referenced is refused by a storage that enforces the reference    *)
(* and carried out by one that does not; both are outcomes.  Deletions     *)
(* issued together (Promise.all) take effect in any order.  An id that is  *)
(* still referenced is not given to a new folder.                          *)
(*                                                                         *)
(* A behaviour is one initial store followed by at most MaxOps requests.   *)
(* The initial stores are stores the program is found in: an empty         *)
(* project, a nested tree, content that predates the plugin, a stale       *)
(* slug, a short and a full slug history, folders created under the same   *)
(* name.  A restore-slug request may be split at the end of its read;      *)
(* inflight then holds what it read.  wave follows one recursive delete    *)
(* through the storage calls it has issued and that have not completed;    *)
(* tree holds what the tree view's assembler returned for the store.       *)
(***************************************************************************)
EXTENDS Integers, Sequences, FiniteSets, TLC

\* ------------------------------------------------------------------ bounds
MaxFolders == 3
MaxDocs == 2
MaxOps == 1
MaxLen == 4
MaxFound == 11   \* documents one find of the recursive delete returns
MaxTree == 6     \* folders the recursive delete collects

\* ------------------------------------------------------- program constants
MAX_SLUG_HISTORY == 20

FolderIds == 1..MaxFolders
DocIds == 1..MaxDocs
NoFolder == 0
Collections == <<"pages", "posts">>
CollectionSet == {Collections[i] : i \in 1..Len(Collections)}

\* ----------------------------------------------------------------- strings
Upper == <<"A","B","C","D","E","F","G","H","I","J","K","L","M",
           "N","O","P","Q","R","S","T","U","V","W","X","Y","Z">>
Lower == <<"a","b","c","d","e","f","g","h","i","j","k","l","m",
           "n","o","p","q","r","s","t","u","v","w","x","y","z">>
Digits == {"0","1","2","3","4","5","6","7","8","9"}
SpaceChars == {" ", "\t"}
HyphenChars == {"-"}

Range(s) == {s[i] : i \in 1..Len(s)}

ToLowerChar(ch) ==
  IF \E i \in 1..Len(Upper) : Upper[i] = ch
  THEN Lower[CHOOSE i \in 1..Len(Upper) : Upper[i] = ch]
  ELSE ch

\* \w of a JavaScript regular expression without the u flag: [A-Za-z0-9_]
WordChars == Range(Upper) \cup Range(Lower) \cup Digits \cup {"_"}
IsWordChar(ch) == ch \in WordChars

ToLowerCase(s) == [i \in 1..Len(s) |-> ToLowerChar(s[i])]

RECURSIVE StripLeading(_, _)
StripLeading(s, set) ==
  IF s # <<>> /\ Head(s) \in set THEN StripLeading(Tail(s), set) ELSE s

RECURSIVE StripTrailing(_, _)
StripTrailing(s, set) ==
  IF s # <<>> /\ s[Len(s)] \in set
  THEN StripTrailing(SubSeq(s, 1, Len(s) - 1), set)
  ELSE s

Strip(s, set) == StripTrailing(StripLeading(s, set), set)

\* replace(/X+/g, rep): every maximal run of characters of set becomes rep
RECURSIVE ReplaceRuns(_, _, _)
ReplaceRuns(s, set, rep) ==
  IF s = <<>> THEN <<>>
  ELSE IF Head(s) \in set
       THEN rep \o ReplaceRuns(StripLeading(s, set), set, rep)
       ELSE <<Head(s)>> \o ReplaceRuns(Tail(s), set, rep)

KeepChar(ch) == IsWordChar(ch) \/ ch \in SpaceChars \/ ch = "-"

\* a normalization that leaves the hyphens at the ends
slugifyUntrimmed(text) ==
  ReplaceRuns(
    ReplaceRuns(
      SelectSeq(Strip(ToLowerCase(text), SpaceChars), KeepChar),
      SpaceChars, <<"-">>),
    HyphenChars, <<"-">>)

slugify(text) ==
  Strip(
    ReplaceRuns(
      ReplaceRuns(
        SelectSeq(Strip(ToLowerCase(text), SpaceChars), KeepChar),
        SpaceChars, <<"-">>),
      HyphenChars, <<"-">>),
    HyphenChars)

\* `${a}/${b}`
Slash(a, b) == a \o <<"/">> \o b

\* s.split('/'): the sequence of the pieces between the '/' characters
RECURSIVE SplitSlash(_)
SplitSlash(s) ==
  IF \A i \in 1..Len(s) : s[i] # "/" THEN <<s>>
  ELSE LET k == CHOOSE i \in 1..Len(s) :
                  s[i] = "/" /\ \A j \in 1..(i - 1) : s[j] # "/"
       IN <<SubSeq(s, 1, k - 1)>> \o SplitSlash(SubSeq(s, k + 1, Len(s)))

LastSegment(s) == LET p == SplitSlash(s) IN p[Len(p)]

Take(s, n) == SubSeq(s, 1, IF Len(s) < n THEN Len(s) ELSE n)

\* ------------------------------------------------------------- the store
VARIABLES folders, docs, steps, last, inflight, wave, tree
vars == <<folders, docs, steps, last, inflight, wave, tree>>

\* A folder slot that holds no folder
NoFolderRec ==
  [exists |-> FALSE, name |-> <<>>, pathSegment |-> <<>>, parent |-> NoFolder,
   sortOrder |-> 0]

\* A document slot that holds no document
NoDocRec ==
  [exists |-> FALSE, coll |-> "", title |-> <<>>, pageSegment |-> <<>>,
   folder |-> NoFolder, slug |-> <<>>, slugHistory |-> <<>>,
   status |-> "draft", sortOrder |-> 0]

HistoryEntry(slug, reason) == [slug |-> slug, reason |-> reason]

\* A restore-slug request between its read and its write: the document it
\* is for, the slug it is to restore, and the document as findByID returned
\* it.  NoRead: no such request is under way.
\* no tree assembled
NoTree == [folderMap |-> <<>>, pageNodes |-> <<>>, tree |-> <<>>]

\* a recursive delete that is not running
NoWave == [pc |-> "idle", left |-> <<>>, pagesOut |-> 0, toDelete |-> 0, foldersOut |-> 0]

NoRead == [id |-> 0, targetSlug |-> <<>>, pageDoc |-> NoDocRec]

\* The per-call context bag of a write
NoCtx ==
  [updateSlugs |-> FALSE, slugChangeReason |-> "", cascading |-> FALSE,
   skipSlugGeneration |-> FALSE]

\* ------------------------------------------------------- path resolution
\* getFolderPath, with the number of folder lookups counted: a chain that
\* needs more lookups than there are folders runs through a cycle, and the
\* recursion of the source then never returns (div).
RECURSIVE ResolvePath(_, _, _)
ResolvePath(folderId, F, fuel) ==
  IF folderId = NoFolder THEN [div |-> FALSE, path |-> <<>>]
  ELSE IF fuel = 0 THEN [div |-> TRUE, path |-> <<>>]
  ELSE IF ~F[folderId].exists THEN [div |-> FALSE, path |-> <<>>]
  ELSE IF F[folderId].pathSegment = <<>> THEN [div |-> FALSE, path |-> <<>>]
  ELSE LET parentPath == ResolvePath(F[folderId].parent, F, fuel - 1)
           segment == F[folderId].pathSegment
       IN [div |-> parentPath.div,
           path |-> IF parentPath.path # <<>>
                    THEN Slash(parentPath.path, segment)
                    ELSE segment]

\* a path resolution that stops at the folder's own segment
getFolderPathOwnSegment(folderId, F) ==
  IF folderId = NoFolder \/ ~F[folderId].exists THEN <<>>
  ELSE F[folderId].pathSegment

\* a path resolution that gives nothing when a folder of the store names a
\* parent that is not there
getFolderPathAllOrNothing(folderId, F) ==
  IF \E g \in FolderIds :
       F[g].exists /\ F[g].parent # NoFolder /\ ~F[F[g].parent].exists
  THEN <<>>
  ELSE ResolvePath(folderId, F, MaxFolders).path

getFolderPath(folderId, F) == ResolvePath(folderId, F, MaxFolders).path

\* the folders as the lookups of a request see them when the lookup of the
\* folders in lost throws: the catch of getFolderPath answers '' as it does
\* for a folder that is not there
Without(F, lost) == [f \in FolderIds |-> IF f \in lost THEN NoFolderRec ELSE F[f]]

PathDiverges(folderId, F) == ResolvePath(folderId, F, MaxFolders).div

\* find({where: {folder: {equals: parentId}}}) on the folders collection
ChildFolders(parentId, F) ==
  {g \in FolderIds : F[g].exists /\ F[g].parent = parentId}

RECURSIVE ChildClosure(_, _, _)
ChildClosure(parentId, F, fuel) ==
  IF fuel = 0 THEN {}
  ELSE ChildFolders(parentId, F) \cup
       UNION {ChildClosure(c, F, fuel - 1) : c \in ChildFolders(parentId, F)}

\* getAllChildFolderIds: the folders below parentId, at any depth
getAllChildFolderIds(parentId, F) == ChildClosure(parentId, F, MaxFolders)

\* the recursion of getAllChildFolderIds never returns when it meets a cycle
ClosureDiverges(parentId, F) ==
  \E g \in getAllChildFolderIds(parentId, F) \cup {parentId} :
     g \in getAllChildFolderIds(g, F)

\* ------------------------------------------------------ document writes
\* pageSegment field, beforeValidate hook: a given value is slugified
PageSegmentFieldHook(value) == IF value # <<>> THEN slugify(value) ELSE value

\* The data a collection hook sees on update: the incoming fields (set names
\* the fields the write carries), every other field taken from the stored
\* document.  An update with data {} therefore carries the stored title,
\* pageSegment and folder into the slug builder, as the cascade relies on.
MergePage(orig, inc, set) ==
  [exists |-> TRUE,
   coll |-> orig.coll,
   title |-> IF "title" \in set THEN inc.title ELSE orig.title,
   pageSegment |-> IF "pageSegment" \in set
                   THEN PageSegmentFieldHook(inc.pageSegment)
                   ELSE orig.pageSegment,
   folder |-> IF "folder" \in set THEN inc.folder ELSE orig.folder,
   slug |-> IF "slug" \in set THEN inc.slug ELSE orig.slug,
   slugHistory |-> IF "slugHistory" \in set THEN inc.slugHistory
                   ELSE orig.slugHistory,
   status |-> IF "status" \in set THEN inc.status ELSE orig.status,
   sortOrder |-> IF "sortOrder" \in set THEN inc.sortOrder ELSE orig.sortOrder]

\* The local segment the slug builder uses: data.pageSegment, else
\* slugify(data.title)
LocalSegment(data) ==
  IF data.pageSegment = <<>> /\ data.title # <<>>
  THEN slugify(data.title)
  ELSE data.pageSegment

\* a slug builder without the early return
KeepsSlugNever(data, operation, orig, ctx) == FALSE

\* the "preserve existing slugs" early return of the slug builder
KeepsSlug(data, operation, orig, ctx) ==
  /\ operation = "update"
  /\ orig.slug # <<>>
  /\ ~ctx.updateSlugs
  /\ data.folder = orig.folder
  /\ data.pageSegment = orig.pageSegment

\* a history that takes the new entry at its end
AppendHistory(orig, reason) ==
  Take(orig.slugHistory \o <<HistoryEntry(orig.slug, reason)>>, MAX_SLUG_HISTORY)

\* a history that is never cut
PrependUncut(orig, reason) ==
  <<HistoryEntry(orig.slug, reason)>> \o orig.slugHistory

\* the history a slug-changing update stores
PrependHistory(orig, reason) ==
  Take(<<HistoryEntry(orig.slug, reason)>> \o orig.slugHistory, MAX_SLUG_HISTORY)

ReasonOf(ctx) ==
  IF ctx.slugChangeReason # "" THEN ctx.slugChangeReason ELSE "manual"

\* a slug builder that records the stored slug at every rebuild
BuildSlugHookAlwaysRecords(data, operation, orig, ctx, F) ==
  IF ctx.skipSlugGeneration THEN data
  ELSE IF KeepsSlug(data, operation, orig, ctx) THEN data
  ELSE LET pageSegment == LocalSegment(data)
           d1 == [data EXCEPT !.pageSegment = pageSegment]
       IN IF pageSegment = <<>> THEN d1
          ELSE LET folderPath == getFolderPath(data.folder, F)
                   newSlug == IF folderPath # <<>>
                              THEN Slash(folderPath, pageSegment)
                              ELSE pageSegment
                   d2 == IF operation = "update" /\ orig.slug # <<>>
                         THEN [d1 EXCEPT !.slugHistory =
                                 PrependHistory(orig, ReasonOf(ctx))]
                         ELSE d1
               IN [d2 EXCEPT !.slug = newSlug]

\* createBuildSlugHook: the beforeChange hook of a configured collection.
\* orig is the stored document (NoDocRec on create).
BuildSlugHook(data, operation, orig, ctx, F) ==
  IF ctx.skipSlugGeneration THEN data
  ELSE IF KeepsSlug(data, operation, orig, ctx) THEN data
  ELSE LET pageSegment == LocalSegment(data)
           d1 == [data EXCEPT !.pageSegment = pageSegment]
       IN IF pageSegment = <<>> THEN d1
          ELSE LET folderPath == getFolderPath(data.folder, F)
                   newSlug == IF folderPath # <<>>
                              THEN Slash(folderPath, pageSegment)
                              ELSE pageSegment
                   d2 == IF operation = "update" /\ orig.slug # <<>>
                            /\ orig.slug # newSlug
                         THEN [d1 EXCEPT !.slugHistory =
                                 PrependHistory(orig, ReasonOf(ctx))]
                         ELSE d1
               IN [d2 EXCEPT !.slug = newSlug]

\* the hook reaches getFolderPath and the parent chain runs into a cycle:
\* the write never completes
HookDiverges(data, operation, orig, ctx, F) ==
  /\ ~ctx.skipSlugGeneration
  /\ ~KeepsSlug(data, operation, orig, ctx)
  /\ LocalSegment(data) # <<>>
  /\ PathDiverges(data.folder, F)

\* payload.update on a document of a configured collection
UpdatedPage(orig, inc, set, ctx, F) ==
  BuildSlugHook(MergePage(orig, inc, set), "update", orig, ctx, F)

UpdateDiverges(orig, inc, set, ctx, F) ==
  HookDiverges(MergePage(orig, inc, set), "update", orig, ctx, F)

\* payload.create on a configured collection
CreatedPage(coll, inc, set, F) ==
  BuildSlugHook(MergePage([NoDocRec EXCEPT !.coll = coll], inc, set),
                "create", NoDocRec, NoCtx, F)

CreateDiverges(coll, inc, set, F) ==
  HookDiverges(MergePage([NoDocRec EXCEPT !.coll = coll], inc, set),
               "create", NoDocRec, NoCtx, F)

\* --------------------------------------------------------- folder writes
\* pathSegment field, beforeValidate hook.  value is the incoming
\* pathSegment and name the incoming name (<<>> when the write carries none).
PathSegmentFieldHook(value, name) ==
  IF value # <<>> THEN slugify(value)
  ELSE IF name # <<>> THEN slugify(name)
  ELSE value

\* The folder a write stores: the incoming fields over the stored folder.
\* The field hook runs on the incoming data; a pathSegment that is still
\* undefined after it is taken from the stored folder.
MergeFolder(orig, inc, set) ==
  [exists |-> TRUE,
   name |-> IF "name" \in set THEN inc.name ELSE orig.name,
   pathSegment |->
     IF "pathSegment" \in set \/ ("name" \in set /\ inc.name # <<>>)
     THEN PathSegmentFieldHook(
            IF "pathSegment" \in set THEN inc.pathSegment ELSE <<>>,
            IF "name" \in set THEN inc.name ELSE <<>>)
     ELSE orig.pathSegment,
   parent |-> IF "folder" \in set THEN inc.parent ELSE orig.parent,
   sortOrder |-> IF "sortOrder" \in set THEN inc.sortOrder ELSE orig.sortOrder]

\* a cascade that does not look at the updateSlugs flag
CascadeRunsUnflagged(doc, previousDoc, ctx) ==
  /\ ~ctx.cascading
  /\ \/ doc.pathSegment # previousDoc.pathSegment
     \/ doc.parent # previousDoc.parent

\* a cascade that does not look at the cascading marker
CascadeRunsReentrant(doc, previousDoc, ctx) ==
  /\ ctx.updateSlugs
  /\ \/ doc.pathSegment # previousDoc.pathSegment
     \/ doc.parent # previousDoc.parent

\* a cascade that does not look at what the write changed
CascadeRunsUntriggered(doc, previousDoc, ctx) ==
  /\ ~ctx.cascading
  /\ ctx.updateSlugs

\* ---------------------------------------------------------------- cascade
\* the guards of createCascadeSlugUpdatesHook: doc is the folder as written,
\* previousDoc the folder before the write
CascadeRuns(doc, previousDoc, ctx) ==
  /\ ~ctx.cascading
  /\ ctx.updateSlugs
  /\ \/ doc.pathSegment # previousDoc.pathSegment
     \/ doc.parent # previousDoc.parent

\* a cascade that reaches the changed folder only
AffectedFolderOnly(id, F) == {id}

\* a cascade that reaches every folder and the root level
AffectedEverywhere(id, F) == FolderIds \cup {NoFolder}

\* allAffectedFolderIds
AffectedFolders(id, F) == {id} \cup getAllChildFolderIds(id, F)

\* find({where: {folder: {in: ids}}}) over the configured collections
PagesIn(D, ids) ==
  {d \in DocIds : D[d].exists /\ D[d].coll \in CollectionSet /\ D[d].folder \in ids}

\* the context of the document writes the cascade issues
CascadeCtx ==
  [updateSlugs |-> TRUE, slugChangeReason |-> "", cascading |-> TRUE,
   skipSlugGeneration |-> FALSE]

\* ------------------------------------------------------------ batch writes
\* what the storage saw of a request: the document writes issued, in order,
\* those of them it refused, the folder deletions in the order they took
\* effect, the count the response carried, the name a create request
\* asked for, the document a duplicate request named, the redirects a
\* redirects request returned, the collection a request named, and the
\* folders whose lookup failed during the request
NoIO ==
  [issued |-> <<>>, failed |-> {}, order |-> <<>>, count |-> 0, asked |-> <<>>,
   from |-> 0, redirects |-> <<>>, coll |-> "", lost |-> {}]

\* The order in which a loop over the configured collections and their pages
\* issues its writes
IndexOf(coll) == CHOOSE i \in 1..Len(Collections) : Collections[i] = coll

IssuedBefore(D, d, e) ==
  \/ IndexOf(D[d].coll) < IndexOf(D[e].coll)
  \/ IndexOf(D[d].coll) = IndexOf(D[e].coll) /\ d < e

\* "for page of pages: await payload.update({id: page.id, data: {}, context})"
\* over the pages targets: <<docs, completed, issued, returned>>.  A write
\* whose path resolution never returns stops the loop there.
BatchUpdate(D, targets, ctx, F) ==
  LET stuck == {d \in targets : UpdateDiverges(D[d], NoDocRec, {}, ctx, F)}
      done == {d \in targets : \A e \in stuck : IssuedBefore(D, d, e)}
  IN <<[d \in DocIds |->
          IF d \in done THEN UpdatedPage(D[d], NoDocRec, {}, ctx, F) ELSE D[d]],
       stuck = {},
       {d \in targets : \A e \in stuck : d = e \/ IssuedBefore(D, d, e)},
       done>>

SetMin(S) == CHOOSE m \in S : \A x \in S : m <= x

\* the documents S as a list in the order the loops reach them
RECURSIVE InIssueOrder(_, _)
InIssueOrder(D, S) ==
  IF S = {} THEN <<>>
  ELSE LET m == CHOOSE d \in S : \A e \in S \ {d} : IssuedBefore(D, d, e)
       IN <<m>> \o InIssueOrder(D, S \ {m})

\* The loop of the cascade over one collection, T being the pages found in
\* it: "try { find; for page of pages: await payload.update(...) } catch
\* { console.error }".  A write the storage refuses throws, which leaves the
\* for loop; a write whose path resolution never returns stops everything.
Blockers(T, refused, stuck) == T \cap (refused \cup stuck)

Attempted(T, refused, stuck) ==
  {d \in T : \A e \in Blockers(T, refused, stuck) : d <= e}

Hangs(T, refused, stuck) == Attempted(T, refused, stuck) \cap stuck # {}

FoundIn(D, targets, i) == {d \in targets : D[d].coll = Collections[i]}

\* "for collectionSlug of collections": the collections the loop reaches
Reached(D, targets, refused, stuck) ==
  {i \in 1..Len(Collections) :
     \A j \in 1..(i - 1) : ~Hangs(FoundIn(D, targets, j), refused, stuck)}

\* the writes of the pages targets that are issued
AttemptedAll(D, targets, refused, stuck) ==
  UNION {Attempted(FoundIn(D, targets, i), refused, stuck) :
           i \in Reached(D, targets, refused, stuck)}

\* the pages among targets whose path resolution never returns
Stuck(D, targets, F) ==
  {d \in targets : UpdateDiverges(D[d], NoDocRec, {}, CascadeCtx, F)}

\* the document writes of the cascade: [docs, completed, issued, failed]
CascadeRun(D, targets, F, refused, stuck, att) ==
  [docs |-> [d \in DocIds |->
               IF d \in att \ (refused \cup stuck)
               THEN UpdatedPage(D[d], NoDocRec, {}, CascadeCtx, F) ELSE D[d]],
   completed |-> att \cap stuck = {},
   issued |-> InIssueOrder(D, att),
   failed |-> (att \cap refused) \ stuck]

CascadeWrites(D, targets, F, refused) ==
  CascadeRun(D, targets, F, refused, Stuck(D, targets, F),
             AttemptedAll(D, targets, refused, Stuck(D, targets, F)))

\* payload.update on a folder, afterChange hook included: <<folders, docs,
\* completed, issued, failed>>.  The folder write is stored before the hook
\* runs; refused are the documents whose write the storage refuses.
FolderWrite(F, D, id, inc, set, ctx, refused) ==
  LET doc == MergeFolder(F[id], inc, set)
      F2 == [F EXCEPT ![id] = doc]
      run == CascadeWrites(D, PagesIn(D, AffectedFolders(id, F2)), F2, refused)
  IN IF ~CascadeRuns(doc, F[id], ctx) THEN <<F2, D, TRUE, <<>>, {}>>
     ELSE IF ClosureDiverges(id, F2) THEN <<F2, D, FALSE, <<>>, {}>>
     ELSE <<F2, run.docs, run.completed, run.issued, run.failed>>

\* what a folder write left with the storage
WriteIO(res) == [NoIO EXCEPT !.issued = res[4], !.failed = res[5]]

\* payload.update on a document: <<docs, completed>>
PageWrite(F, D, id, inc, set, ctx) ==
  IF UpdateDiverges(D[id], inc, set, ctx, F) THEN <<D, FALSE>>
  ELSE <<[D EXCEPT ![id] = UpdatedPage(D[id], inc, set, ctx, F)], TRUE>>

\* ------------------------------------------------------ generateUniqueName
DigitSeq == <<"0","1","2","3","4","5","6","7","8","9">>
DigitValue(ch) == (CHOOSE i \in 1..10 : DigitSeq[i] = ch) - 1

\* parseInt(digits, 10)
RECURSIVE ParseInt(_)
ParseInt(ds) ==
  IF ds = <<>> THEN 0
  ELSE 10 * ParseInt(SubSeq(ds, 1, Len(ds) - 1)) + DigitValue(ds[Len(ds)])

\* `${n}`
RECURSIVE NatToStr(_)
NatToStr(n) ==
  IF n < 10 THEN <<DigitSeq[n + 1]>>
  ELSE NatToStr(n \div 10) \o <<DigitSeq[(n % 10) + 1]>>

CopyOpen == <<"(", "c", "o", "p", "y">>

EndsWith(s, t) ==
  Len(s) >= Len(t) /\ SubSeq(s, Len(s) - Len(t) + 1, Len(s)) = t

DropLast(s, n) == SubSeq(s, 1, Len(s) - n)

\* The tail \(copy(?:\s+(\d+))?\)$ of the two copy patterns, matched
\* without regard to case: whether s has it, what precedes it, and the copy
\* number (1 when the tail has no number).
NoCopyTail == [match |-> FALSE, before |-> <<>>, num |-> 0]

\* "(copy <digits>)": noDigits is the text before the digits, noSpaces the
\* text before the whitespace in front of them
NumberedTail(s, digits, noDigits, noSpaces) ==
  IF digits # <<>> /\ Len(noSpaces) < Len(noDigits) /\ EndsWith(noSpaces, CopyOpen)
  THEN [match |-> TRUE,
        before |-> SubSeq(s, 1, Len(noSpaces) - Len(CopyOpen)),
        num |-> ParseInt(digits)]
  ELSE NoCopyTail

DigitsTail(s, body, noDigits) ==
  NumberedTail(s, SubSeq(body, Len(noDigits) + 1, Len(body)), noDigits,
               StripTrailing(noDigits, SpaceChars))

\* body is the lower-case text before the closing parenthesis
TailBody(s, body) ==
  IF EndsWith(body, CopyOpen)
  THEN [match |-> TRUE, before |-> DropLast(s, Len(CopyOpen) + 1), num |-> 1]
  ELSE DigitsTail(s, body, StripTrailing(body, Digits))

LowerTail(s, low) ==
  IF low = <<>> \/ low[Len(low)] # ")" THEN NoCopyTail
  ELSE TailBody(s, DropLast(low, 1))

CopyTail(s) == LowerTail(s, ToLowerCase(s))

\* baseName.match(copyPattern) ? match[1].trim() : baseName
CleanOf(baseName, t) ==
  IF t.match /\ t.before # <<>> THEN Strip(t.before, SpaceChars) ELSE baseName

CleanBaseName(baseName) == CleanOf(baseName, CopyTail(baseName))

\* name.match(copyRegex): the copy number of name as a copy of clean, 0 when
\* name is no copy of clean
CopyNumberFrom(t, clean) ==
  IF /\ t.match
     /\ Len(t.before) >= Len(clean)
     /\ ToLowerCase(SubSeq(t.before, 1, Len(clean))) = ToLowerCase(clean)
     /\ \A i \in (Len(clean) + 1)..Len(t.before) : t.before[i] \in SpaceChars
  THEN t.num ELSE 0

CopyNumberOf(name, clean) == CopyNumberFrom(CopyTail(name), clean)

SetMax(S) == IF S = {} THEN 0 ELSE CHOOSE m \in S : \A x \in S : x <= m

\* `${cleanBaseName} (copy)` or `${cleanBaseName} (copy ${nextNum})`
CopyName(clean, nextNum) ==
  IF nextNum = 1 THEN clean \o <<" ">> \o CopyOpen \o <<")">>
  ELSE clean \o <<" ">> \o CopyOpen \o <<" ">> \o NatToStr(nextNum) \o <<")">>

\* a unique name that is always the first copy
FirstCopy(existingNames, clean) == CopyName(clean, 1)

NextCopy(existingNames, clean) ==
  CopyName(clean, SetMax({CopyNumberOf(n, clean) : n \in existingNames}) + 1)

UniqueAmongLower(baseName, existingNames) ==
  IF ToLowerCase(baseName) \notin existingNames THEN baseName
  ELSE NextCopy(existingNames, CleanBaseName(baseName))

\* generateUniqueName, given the names of the siblings
UniqueNameAmong(baseName, siblingNames) ==
  UniqueAmongLower(baseName, {ToLowerCase(n) : n \in siblingNames})

SiblingFolderNames(F, parentId) ==
  {F[g].name : g \in ChildFolders(parentId, F)}

SiblingTitles(D, coll, parentId) ==
  {D[d].title : d \in {e \in DocIds : D[e].exists /\ D[e].coll = coll
                                       /\ D[e].folder = parentId}}

generateUniqueName(F, D, baseName, type, parentId, coll) ==
  IF type = "folder"
  THEN UniqueNameAmong(baseName, SiblingFolderNames(F, parentId))
  ELSE UniqueNameAmong(baseName, SiblingTitles(D, coll, parentId))


\* ------------------------------------------------------------------ inputs
\* Folder names, page titles and URL segments a request may carry.  "B" and
\* "C" normalize to b and c; "!" normalizes to the empty segment.
NameInputs == {<<"B">>, <<"!">>}
TitleInputs == {<<"C">>, <<"!">>}
SegmentInputs == {<<"a">>, <<"B">>}
SortOrders == {1}
Statuses == {"draft", "published"}
RESTORE_HISTORY_LIMIT == 20

ExistingFolders == {f \in FolderIds : folders[f].exists}
ExistingDocs == {d \in DocIds : docs[d].exists}
FreeFolderIds ==
  {f \in FolderIds \ ExistingFolders :
     /\ \A g \in FolderIds : ~(folders[g].exists /\ folders[g].parent = f)
     /\ \A d \in DocIds : ~(docs[d].exists /\ docs[d].folder = f)}
FreeDocIds == DocIds \ ExistingDocs

\* what the last request was and how it ended (field: the one field an
\* editor save carried)
DidIO(op, kind, id, us, arg, resp, field, io) ==
  last' = [op |-> op, kind |-> kind, id |-> id, us |-> us, arg |-> arg,
           resp |-> resp, field |-> field, io |-> io]

Did(op, kind, id, us, arg, resp) == DidIO(op, kind, id, us, arg, resp, "", NoIO)

DidSave(kind, id, field, arg, resp) ==
  DidIO("editorSave", kind, id, FALSE, arg, resp, field, NoIO)

Completed(ok) == IF ok THEN "ok" ELSE "hang"

Ctx(updateSlugs, reason) ==
  [updateSlugs |-> updateSlugs, slugChangeReason |-> reason, cascading |-> FALSE,
   skipSlugGeneration |-> FALSE]

\* ------------------------------------------------------------------- Init
Folder(name, pathSegment, parent) ==
  [exists |-> TRUE, name |-> name, pathSegment |-> pathSegment, parent |-> parent,
   sortOrder |-> 0]

Page(coll, title, pageSegment, folder, slug) ==
  [exists |-> TRUE, coll |-> coll, title |-> title, pageSegment |-> pageSegment,
   folder |-> folder, slug |-> slug, slugHistory |-> <<>>, status |-> "draft",
   sortOrder |-> 0]

EmptyFolders == [f \in FolderIds |-> NoFolderRec]
EmptyDocs == [d \in DocIds |-> NoDocRec]

\* folder a at the root with folder b inside, and a page c in b
NestedFolders ==
  [EmptyFolders EXCEPT ![1] = Folder(<<"a">>, <<"a">>, NoFolder),
                       ![2] = Folder(<<"b">>, <<"b">>, 1)]
NestedDocs ==
  [EmptyDocs EXCEPT ![1] = Page("pages", <<"c">>, <<"c">>, 2,
                                <<"a", "/", "b", "/", "c">>)]

\* the same in a project that had content before the plugin was added: a
\* third folder without a pathSegment, holding a page with a slug of its
\* own and no pageSegment
MixedFolders ==
  [NestedFolders EXCEPT ![3] = Folder(<<"B">>, <<>>, NoFolder)]
MixedDocs ==
  [NestedDocs EXCEPT ![2] = Page("posts", <<"c">>, <<>>, 3, <<"o", "l", "d">>)]

\* the nested tree with a second page in folder b, created with the title
\* "!": it has no local segment and got no slug
UnnamedFolders == NestedFolders
UnnamedDocs ==
  [NestedDocs EXCEPT ![2] = Page("pages", <<"!">>, <<>>, 2, <<>>)]

\* the nested tree after the URL segment of folder 1 was edited from a to b
\* with the page cascaded
EditedFolders ==
  [NestedFolders EXCEPT ![1] = Folder(<<"a">>, <<"b">>, NoFolder)]
EditedDocs ==
  [NestedDocs EXCEPT
     ![1] = [Page("pages", <<"c">>, <<"c">>, 2, <<"b", "/", "b", "/", "c">>)
               EXCEPT !.slugHistory =
                 <<HistoryEntry(<<"a", "/", "b", "/", "c">>, "manual")>>]]

\* the nested tree after the pathSegment of folder 1 was changed from a to b
\* in the folder's own editor: no cascade ran, the page kept its slug
StaleFolders == EditedFolders
StaleDocs == NestedDocs

\* the nested tree after the URL segment of folder 1 was edited to and fro
\* between a and b, MAX_SLUG_HISTORY times
TogglingHistory ==
  [i \in 1..MAX_SLUG_HISTORY |->
     HistoryEntry(IF i % 2 = 1 THEN <<"a", "/", "b", "/", "c">>
                  ELSE <<"b", "/", "b", "/", "c">>, "manual")]
ToggledFolders == EditedFolders
ToggledDocs ==
  [EditedDocs EXCEPT ![1].slugHistory = TogglingHistory]

\* a project in which a folder B was created twice at the root, and a page
\* was duplicated and the original deleted
CopyOfB == <<"B", " ", "(", "c", "o", "p", "y", ")">>
CopyOfC == <<"C", " ", "(", "c", "o", "p", "y", ")">>
CopiesFolders ==
  [EmptyFolders EXCEPT ![1] = Folder(<<"B">>, <<"b">>, NoFolder),
                       ![2] = Folder(CopyOfB, slugify(CopyOfB), NoFolder)]
CopiesDocs ==
  [EmptyDocs EXCEPT ![1] = Page("pages", CopyOfC, slugify(CopyOfC), NoFolder,
                                slugify(CopyOfC))]

\* the nested tree in a project whose pages had their slugs stored as URL
\* paths before the plugin was added: a root page c with slug /c
LegacyFolders == NestedFolders
LegacyDocs ==
  [NestedDocs EXCEPT ![2] = Page("posts", <<"c">>, <<>>, NoFolder, <<"/", "c">>)]

\* the nested tree after folder a was deleted without its children on a
\* storage that does not enforce references: folder b names a parent that is
\* not there
OrphanedFolders == [NestedFolders EXCEPT ![1] = NoFolderRec]
OrphanedDocs == NestedDocs

Stores ==
  {<<EmptyFolders, EmptyDocs>>, <<NestedFolders, NestedDocs>>,
   <<OrphanedFolders, OrphanedDocs>>,
   <<CopiesFolders, CopiesDocs>>, <<LegacyFolders, LegacyDocs>>,
   <<MixedFolders, MixedDocs>>, <<UnnamedFolders, UnnamedDocs>>,
   <<StaleFolders, StaleDocs>>, <<EditedFolders, EditedDocs>>,
   <<ToggledFolders, ToggledDocs>>}

Init ==
  /\ \E st \in Stores : folders = st[1] /\ docs = st[2]
  /\ steps = 0
  /\ last = [op |-> "none", kind |-> "", id |-> 0, us |-> FALSE, arg |-> <<>>,
             resp |-> "", field |-> "", io |-> NoIO]
  /\ inflight = NoRead
  /\ wave = NoWave
  /\ tree = NoTree

\* ---------------------------------------------------------------- actions
\* POST /page-tree/create, type folder
CreateFolder(parentId, name) ==
  /\ steps < MaxOps
  /\ FreeFolderIds # {}
  /\ LET id == SetMin(FreeFolderIds)
         uniqueName == generateUniqueName(folders, docs, name, "folder", parentId, "")
         data == [NoFolderRec EXCEPT !.name = uniqueName,
                                     !.pathSegment = slugify(uniqueName),
                                     !.parent = parentId, !.sortOrder = 0]
     IN IF name = <<>>
        THEN /\ UNCHANGED folders
             /\ Did("create", "folder", 0, FALSE, name, "400")
        ELSE /\ folders' = [folders EXCEPT ![id] =
                              MergeFolder(NoFolderRec, data,
                                          {"name", "pathSegment", "folder", "sortOrder"})]
             /\ DidIO("create", "folder", id, FALSE, uniqueName, "ok", "",
                      [NoIO EXCEPT !.asked = name])
  /\ steps' = steps + 1
  /\ UNCHANGED <<inflight, wave, tree>>
  /\ UNCHANGED docs

\* POST /page-tree/create, type page
CreatePage(parentId, name, coll) ==
  /\ steps < MaxOps
  /\ FreeDocIds # {}
  /\ LET id == SetMin(FreeDocIds)
         uniqueName == generateUniqueName(folders, docs, name, "page", parentId, coll)
         data == [NoDocRec EXCEPT !.title = uniqueName, !.folder = parentId,
                                  !.sortOrder = 0, !.status = "draft"]
         set == {"title", "folder", "sortOrder", "status"}
     IN IF name = <<>>
        THEN /\ UNCHANGED docs
             /\ Did("create", "page", 0, FALSE, name, "400")
        ELSE IF CreateDiverges(coll, data, set, folders)
        THEN /\ UNCHANGED docs
             /\ Did("create", "page", id, FALSE, uniqueName, "hang")
        ELSE /\ docs' = [docs EXCEPT ![id] = CreatedPage(coll, data, set, folders)]
             /\ DidIO("create", "page", id, FALSE, uniqueName, "ok", "",
                      [NoIO EXCEPT !.asked = name])
  /\ steps' = steps + 1
  /\ UNCHANGED <<inflight, wave, tree>>
  /\ UNCHANGED folders

\* A page created through the collection's own editor or API, with a title,
\* an optional pageSegment and a folder
EditorCreatePage(coll, title, pageSegment, folder) ==
  /\ steps < MaxOps
  /\ FreeDocIds # {}
  /\ LET id == SetMin(FreeDocIds)
         data == [NoDocRec EXCEPT !.title = title, !.pageSegment = pageSegment,
                                  !.folder = folder]
         set == {"title", "pageSegment", "folder"}
     IN IF CreateDiverges(coll, data, set, folders)
        THEN /\ UNCHANGED docs
             /\ Did("editorCreate", "page", id, FALSE, pageSegment, "hang")
        ELSE /\ docs' = [docs EXCEPT ![id] = CreatedPage(coll, data, set, folders)]
             /\ Did("editorCreate", "page", id, FALSE, pageSegment, "ok")
  /\ steps' = steps + 1
  /\ UNCHANGED <<inflight, wave, tree>>
  /\ UNCHANGED folders

\* POST /page-tree/move, type folder
MoveFolder(id, newParentId, newIndex, updateSlugs, refused) ==
  /\ steps < MaxOps
  /\ LET data == [NoFolderRec EXCEPT !.parent = newParentId, !.sortOrder = newIndex]
         res == FolderWrite(folders, docs, id, data, {"folder", "sortOrder"},
                            Ctx(updateSlugs, "move"), refused)
     IN /\ folders' = res[1]
        /\ docs' = res[2]
        /\ DidIO("move", "folder", id, updateSlugs, <<>>, Completed(res[3]), "",
                 WriteIO(res))
  /\ steps' = steps + 1
  /\ UNCHANGED <<inflight, wave, tree>>

\* POST /page-tree/move, type page: the update is tried on each collection;
\* a page found in none of them leaves the loop without a write
MovePage(id, newParentId, newIndex, updateSlugs) ==
  /\ steps < MaxOps
  /\ IF docs[id].exists
     THEN LET data == [NoDocRec EXCEPT !.folder = newParentId, !.sortOrder = newIndex]
              res == PageWrite(folders, docs, id, data, {"folder", "sortOrder"},
                               Ctx(updateSlugs, "move"))
          IN /\ docs' = res[1]
             /\ Did("move", "page", id, updateSlugs, <<>>, Completed(res[2]))
     ELSE /\ UNCHANGED docs
          /\ Did("move", "page", id, updateSlugs, <<>>, "ok")
  /\ steps' = steps + 1
  /\ UNCHANGED <<inflight, wave, tree>>
  /\ UNCHANGED folders

\* POST /page-tree/reorder with one item, type folder
ReorderFolder(id, sortOrder) ==
  /\ steps < MaxOps
  /\ LET res == FolderWrite(folders, docs, id,
                            [NoFolderRec EXCEPT !.sortOrder = sortOrder],
                            {"sortOrder"}, NoCtx, {})
     IN /\ folders' = res[1]
        /\ docs' = res[2]
        /\ Did("reorder", "folder", id, FALSE, <<>>, Completed(res[3]))
  /\ steps' = steps + 1
  /\ UNCHANGED <<inflight, wave, tree>>

\* POST /page-tree/reorder with one item, type page
ReorderPage(id, sortOrder) ==
  /\ steps < MaxOps
  /\ LET res == PageWrite(folders, docs, id, [NoDocRec EXCEPT !.sortOrder = sortOrder],
                          {"sortOrder"}, NoCtx)
     IN /\ docs' = res[1]
        /\ Did("reorder", "page", id, FALSE, <<>>, Completed(res[2]))
  /\ steps' = steps + 1
  /\ UNCHANGED <<inflight, wave, tree>>
  /\ UNCHANGED folders

\* POST /page-tree/status
SetStatus(id, status) ==
  /\ steps < MaxOps
  /\ LET res == PageWrite(folders, docs, id, [NoDocRec EXCEPT !.status = status],
                          {"status"}, NoCtx)
     IN /\ docs' = res[1]
        /\ Did("status", "page", id, FALSE, <<>>, Completed(res[2]))
  /\ steps' = steps + 1
  /\ UNCHANGED <<inflight, wave, tree>>
  /\ UNCHANGED folders

\* DELETE /page-tree/delete, type page
DeletePage(id) ==
  /\ steps < MaxOps
  /\ IF docs[id].exists
     THEN /\ docs' = [docs EXCEPT ![id] = NoDocRec]
          /\ Did("delete", "page", id, FALSE, <<>>, "ok")
     ELSE /\ UNCHANGED docs
          /\ Did("delete", "page", id, FALSE, <<>>, "404")
  /\ steps' = steps + 1
  /\ UNCHANGED <<inflight, wave, tree>>
  /\ UNCHANGED folders

\* collectAllFolderIds: the folder, then what each of its child folders
\* collects, as one list (fuel bounds the recursion; a request on a cycle is
\* answered before the list is used)
RECURSIVE CollectFrom(_, _, _)
RECURSIVE CollectEach(_, _, _)
CollectFrom(folderId, F, fuel) ==
  IF fuel = 0 THEN <<folderId>>
  ELSE <<folderId>> \o CollectEach(ChildFolders(folderId, F), F, fuel - 1)

CollectEach(children, F, fuel) ==
  IF children = {} THEN <<>>
  ELSE CollectFrom(SetMin(children), F, fuel)
         \o CollectEach(children \ {SetMin(children)}, F, fuel)

\* a recursive delete that collects the folder alone
collectFolderOnly(folderId, F) == <<folderId>>

collectAllFolderIds(folderId, F) == CollectFrom(folderId, F, MaxFolders)

\* allFolderIds.reverse()
Reverse(s) == [i \in 1..Len(s) |-> s[Len(s) + 1 - i]]

FOLDER_BATCH_SIZE == 5

\* the batch of foldersToDelete that holds folder f
BatchOf(f, foldersToDelete) ==
  ((CHOOSE i \in 1..Len(foldersToDelete) : foldersToDelete[i] = f) - 1)
    \div FOLDER_BATCH_SIZE

\* The orders in which the deletions of foldersToDelete can take effect:
\* one batch after the other (await Promise.all per batch), the deletions of
\* one batch in any order.
DeleteOrders(foldersToDelete) ==
  {o \in [1..Len(foldersToDelete) -> Range(foldersToDelete)] :
     /\ \A i, j \in 1..Len(o) : i # j => o[i] # o[j]
     /\ \A i, j \in 1..Len(o) :
          i < j => BatchOf(o[i], foldersToDelete) <= BatchOf(o[j], foldersToDelete)}

\* a storage that enforces the references refuses to delete a folder or a
\* document's folder that something stored still refers to
Referenced(f, F, D) ==
  \/ \E g \in FolderIds : F[g].exists /\ F[g].parent = f
  \/ \E d \in DocIds : D[d].exists /\ D[d].folder = f

\* The folder deletions of deleteFolderRecursive taking effect in the order
\* o: <<folders, succeeded>>.  A refused deletion rejects the Promise.all of
\* its batch; the other deletions of the batch go on, no later batch starts.
RECURSIVE DeleteInOrder(_, _, _, _, _, _)
DeleteInOrder(F, D, o, foldersToDelete, enforced, stopped) ==
  IF o = <<>> THEN <<F, stopped < 0>>
  ELSE IF stopped >= 0 /\ BatchOf(Head(o), foldersToDelete) > stopped
       THEN <<F, FALSE>>
  ELSE IF enforced /\ Referenced(Head(o), F, D)
       THEN DeleteInOrder(F, D, Tail(o), foldersToDelete, enforced,
                          BatchOf(Head(o), foldersToDelete))
  ELSE DeleteInOrder([F EXCEPT ![Head(o)] = NoFolderRec], D, Tail(o),
                     foldersToDelete, enforced, stopped)

\* DELETE /page-tree/delete, type folder.  With deleteChildren: the pages of
\* every collected folder are deleted and awaited, then the folders.
\* Without: one payload.delete of the folder, which only the storage can
\* refuse.
DeleteFolder(id, deleteChildren, enforced) ==
  /\ steps < MaxOps
  /\ IF deleteChildren
     THEN IF ClosureDiverges(id, folders)
          THEN /\ UNCHANGED <<folders, docs>>
               /\ Did("delete", "folder", id, TRUE, <<>>, "hang")
          ELSE LET allFolderIds == collectAllFolderIds(id, folders)
                   D2 == [d \in DocIds |->
                            IF d \in PagesIn(docs, Range(allFolderIds))
                            THEN NoDocRec ELSE docs[d]]
               IN \E o \in DeleteOrders(Reverse(allFolderIds)) :
                    /\ docs' = D2
                    /\ folders' = DeleteInOrder(folders, D2, o, Reverse(allFolderIds),
                                                enforced, -1)[1]
                    /\ DidIO("delete", "folder", id, TRUE, <<>>,
                             IF DeleteInOrder(folders, D2, o, Reverse(allFolderIds),
                                              enforced, -1)[2]
                             THEN "ok" ELSE "500", "",
                             [NoIO EXCEPT !.order = o])
     ELSE IF enforced /\ Referenced(id, folders, docs)
          THEN /\ UNCHANGED <<folders, docs>>
               /\ Did("delete", "folder", id, FALSE, <<>>, "500")
          ELSE /\ folders' = [folders EXCEPT ![id] = NoFolderRec]
               /\ UNCHANGED docs
               /\ Did("delete", "folder", id, FALSE, <<>>, "ok")
  /\ steps' = steps + 1
  /\ UNCHANGED <<inflight, wave, tree>>

Untitled == <<"U", "n", "t", "i", "t", "l", "e", "d">>

\* a duplicate that keeps the slug and the local segment of the original
DuplicateKeepingSlug(original, uniqueTitle) ==
  [original EXCEPT !.title = uniqueTitle, !.status = "draft"]

\* the data of the create a duplicate issues: the original without slug and
\* pageSegment, the new title, the pageSegment made from it, draft
DuplicateData(original, uniqueTitle) ==
  [original EXCEPT !.title = uniqueTitle,
                   !.pageSegment = slugify(uniqueTitle),
                   !.slug = <<>>,
                   !.status = "draft"]

\* POST /page-tree/duplicate
Duplicate(id, collection) ==
  /\ steps < MaxOps
  /\ FreeDocIds # {}
  /\ LET new == SetMin(FreeDocIds)
         original == docs[id]
         originalTitle == IF original.title # <<>> THEN original.title ELSE Untitled
         uniqueTitle == generateUniqueName(folders, docs, originalTitle, "page",
                                           original.folder, original.coll)
         data == DuplicateData(original, uniqueTitle)
         set == {"title", "pageSegment", "folder", "slugHistory", "status", "sortOrder"}
     IN IF collection = ""
        THEN /\ UNCHANGED docs
             /\ DidIO("duplicate", "page", 0, FALSE, <<>>, "400", "",
                      [NoIO EXCEPT !.from = id])
        ELSE IF CreateDiverges(original.coll, data, set, folders)
        THEN /\ UNCHANGED docs
             /\ Did("duplicate", "page", new, FALSE, uniqueTitle, "hang")
        ELSE /\ docs' = [docs EXCEPT ![new] =
                           CreatedPage(original.coll, data, set, folders)]
             /\ DidIO("duplicate", "page", new, FALSE, uniqueTitle, "ok", "",
                      [NoIO EXCEPT !.asked = originalTitle, !.from = id])
  /\ steps' = steps + 1
  /\ UNCHANGED <<inflight, wave, tree>>
  /\ UNCHANGED folders

\* a rename that looks at no sibling
NameNeverTaken(F, id, name) == FALSE

\* the conflict check of a folder rename: another folder with the same
\* parent has that name
FolderNameTaken(F, id, name) ==
  \E g \in ChildFolders(F[id].parent, F) : g # id /\ F[g].name = name

\* the conflict check of a page rename, in the page's collection
PageTitleTaken(D, id, name) ==
  \E e \in DocIds :
     /\ D[e].exists /\ D[e].coll = D[id].coll
     /\ D[e].folder = D[id].folder /\ D[e].title = name /\ e # id

\* POST /page-tree/rename, type folder
RenameFolder(id, name, updateSlugs, refused) ==
  /\ steps < MaxOps
  /\ IF name = <<>> \/ FolderNameTaken(folders, id, name)
     THEN /\ UNCHANGED <<folders, docs>>
          /\ Did("rename", "folder", id, updateSlugs, name, "400")
     ELSE LET data == [NoFolderRec EXCEPT !.name = name, !.pathSegment = slugify(name)]
              set == IF updateSlugs THEN {"name", "pathSegment"} ELSE {"name"}
              res == FolderWrite(folders, docs, id, data, set,
                                 Ctx(updateSlugs, "rename"), refused)
          IN /\ folders' = res[1]
             /\ docs' = res[2]
             /\ DidIO("rename", "folder", id, updateSlugs, name, Completed(res[3]),
                      "", WriteIO(res))
  /\ steps' = steps + 1
  /\ UNCHANGED <<inflight, wave, tree>>

\* POST /page-tree/rename, type page
RenamePage(id, name, updateSlugs) ==
  /\ steps < MaxOps
  /\ IF name = <<>> \/ PageTitleTaken(docs, id, name)
     THEN /\ UNCHANGED docs
          /\ Did("rename", "page", id, updateSlugs, name, "400")
     ELSE LET data == [NoDocRec EXCEPT !.title = name, !.pageSegment = slugify(name)]
              set == IF updateSlugs THEN {"title", "pageSegment"} ELSE {"title"}
              res == PageWrite(folders, docs, id, data, set, Ctx(updateSlugs, "rename"))
          IN /\ docs' = res[1]
             /\ Did("rename", "page", id, updateSlugs, name, Completed(res[2]))
  /\ steps' = steps + 1
  /\ UNCHANGED <<inflight, wave, tree>>
  /\ UNCHANGED folders

\* a regenerate whose writes are not flagged
RegenerateCtxUnflagged == Ctx(FALSE, "regenerate")

\* the context of the document writes of regenerate-slugs
RegenerateCtx == Ctx(TRUE, "regenerate")

\* POST /page-tree/regenerate-slugs; folderId = NoFolder: no folder given.
\* updatedCount counts the writes that returned.
Regenerate(folderId) ==
  /\ steps < MaxOps
  /\ IF folderId # NoFolder /\ ClosureDiverges(folderId, folders)
     THEN /\ UNCHANGED docs
          /\ Did("regenerate", "folder", folderId, TRUE, <<>>, "hang")
     ELSE LET targets == IF folderId # NoFolder
                         THEN PagesIn(docs, {folderId} \cup
                                getAllChildFolderIds(folderId, folders))
                         ELSE {d \in DocIds : docs[d].exists
                                              /\ docs[d].coll \in CollectionSet}
              res == BatchUpdate(docs, targets, RegenerateCtx, folders)
          IN /\ docs' = res[1]
             /\ DidIO("regenerate", "folder", folderId, TRUE, <<>>,
                      Completed(res[2]), "",
                      [NoIO EXCEPT !.issued = InIssueOrder(docs, res[3]),
                                   !.count = Cardinality(res[4])])
  /\ steps' = steps + 1
  /\ UNCHANGED <<inflight, wave, tree>>
  /\ UNCHANGED folders

\* the loop of the migrate handler over the folders found without a
\* pathSegment: <<folders, docs>>
RECURSIVE MigrateFolders(_, _, _)
MigrateFolders(F, D, pending) ==
  IF pending = {} THEN <<F, D>>
  ELSE LET f == SetMin(pending)
           res == FolderWrite(F, D, f,
                    [NoFolderRec EXCEPT !.pathSegment = slugify(F[f].name)],
                    {"pathSegment"}, Ctx(FALSE, ""), {})
       IN MigrateFolders(res[1], res[2], pending \ {f})

\* POST /page-tree/migrate
Migrate ==
  /\ steps < MaxOps
  /\ LET found == {f \in FolderIds : folders[f].exists
                                     /\ folders[f].pathSegment = <<>>
                                     /\ folders[f].name # <<>>}
         res == MigrateFolders(folders, docs, found)
     IN /\ folders' = res[1]
        /\ docs' = res[2]
  /\ Did("migrate", "folder", 0, FALSE, <<>>, "ok")
  /\ steps' = steps + 1
  /\ UNCHANGED <<inflight, wave, tree>>

\* entry.slug.startsWith('/') ? entry.slug : `/${entry.slug}`
LeadingSlash(slug) ==
  IF slug # <<>> /\ slug[1] = "/" THEN slug ELSE <<"/">> \o slug

\* the pairs one page adds to the redirect map
RedirectsOfPage(pageDoc) ==
  IF pageDoc.slug # <<>> /\ pageDoc.slugHistory # <<>>
  THEN LET kept == SelectSeq(pageDoc.slugHistory,
                             LAMBDA entry : entry.slug # <<>>
                                            /\ entry.slug # pageDoc.slug)
       IN [i \in 1..Len(kept) |->
             [from |-> LeadingSlash(kept[i].slug), to |-> LeadingSlash(pageDoc.slug)]]
  ELSE <<>>

\* "for page of pages", the pages of the collection that have a slugHistory,
\* from document d on
RECURSIVE RedirectsFrom(_, _, _)
RedirectsFrom(D, collection, d) ==
  IF d > MaxDocs THEN <<>>
  ELSE (IF D[d].exists /\ D[d].coll = collection
        THEN RedirectsOfPage(D[d]) ELSE <<>>)
       \o RedirectsFrom(D, collection, d + 1)

\* GET /page-tree/redirects?collection= ; the collection is "" when the
\* parameter is missing
Redirects(collection) ==
  /\ steps < MaxOps
  /\ IF collection = "" \/ collection \notin CollectionSet
     THEN DidIO("redirects", "", 0, FALSE, <<>>, "400", "",
                [NoIO EXCEPT !.coll = collection])
     ELSE DidIO("redirects", collection, 0, FALSE, <<>>, "ok", "",
                [NoIO EXCEPT !.coll = collection,
                             !.redirects = RedirectsFrom(docs, collection, 1),
                             !.count = Len(RedirectsFrom(docs, collection, 1))])
  /\ steps' = steps + 1
  /\ UNCHANGED <<inflight, wave, tree>>
  /\ UNCHANGED <<folders, docs>>

\* a restore that keeps the entries of the restored slug
RestoredHistoryUnfiltered(pageDoc, targetSlug) ==
  Take(<<HistoryEntry(pageDoc.slug, "restore")>> \o pageDoc.slugHistory,
       RESTORE_HISTORY_LIMIT)

\* newHistory of the restore handler: the current slug with reason restore,
\* then the history without the entries of the restored slug
RestoredHistory(pageDoc, targetSlug) ==
  Take(<<HistoryEntry(pageDoc.slug, "restore")>> \o
         SelectSeq(pageDoc.slugHistory, LAMBDA h : h.slug # targetSlug),
       RESTORE_HISTORY_LIMIT)

\* a restore that takes every slug as one of the history
AnyInHistory(pageDoc, targetSlug) == TRUE

\* pageDoc.slugHistory?.find((h) => h.slug === targetSlug)
InHistory(pageDoc, targetSlug) ==
  \E i \in 1..Len(pageDoc.slugHistory) : pageDoc.slugHistory[i].slug = targetSlug

\* a restore that leaves the pageSegment as it was read
RestoreDataSlugOnly(pageDoc, targetSlug) ==
  [NoDocRec EXCEPT !.slug = targetSlug,
                   !.pageSegment = pageDoc.pageSegment,
                   !.slugHistory = RestoredHistory(pageDoc, targetSlug)]

\* the data of the restore handler's update, from the document it read
RestoreData(pageDoc, targetSlug) ==
  [NoDocRec EXCEPT !.slug = targetSlug,
                   !.pageSegment = LastSegment(targetSlug),
                   !.slugHistory = RestoredHistory(pageDoc, targetSlug)]

\* POST /page-tree/restore-slug up to the end of its findByID: the request
\* is answered 400 when the slug is not in the history it read, and is under
\* way otherwise
RestoreRead(id, targetSlug) ==
  /\ steps < MaxOps
  /\ inflight = NoRead
  /\ IF targetSlug = <<>> \/ ~InHistory(docs[id], targetSlug)
     THEN /\ UNCHANGED inflight
          /\ DidIO("restore", "page", id, FALSE, targetSlug, "400", "",
                   [NoIO EXCEPT !.coll = docs[id].coll])
     ELSE /\ inflight' = [id |-> id, targetSlug |-> targetSlug, pageDoc |-> docs[id]]
          /\ DidIO("restoreRead", "page", id, FALSE, targetSlug, "", "",
                   [NoIO EXCEPT !.coll = docs[id].coll])
  /\ steps' = steps + 1
  /\ UNCHANGED <<folders, docs, wave, tree>>

\* the rest of that request: payload.update with the history built from the
\* document as it was read
RestoreWrite ==
  /\ inflight # NoRead
  /\ LET id == inflight.id
         data == RestoreData(inflight.pageDoc, inflight.targetSlug)
         res == PageWrite(folders, docs, id, data, {"slug", "pageSegment", "slugHistory"},
                          [NoCtx EXCEPT !.skipSlugGeneration = TRUE])
     IN /\ docs' = res[1]
        /\ DidIO("restore", "page", id, FALSE, inflight.targetSlug,
                 Completed(res[2]), "", [NoIO EXCEPT !.coll = docs[id].coll])
  /\ inflight' = NoRead
  /\ UNCHANGED <<folders, steps, wave, tree>>

\* POST /page-tree/restore-slug; the collection is "" when the body has none
RestoreSlug(id, collection, targetSlug) ==
  /\ steps < MaxOps
  /\ LET pageDoc == docs[id]
         data == RestoreData(pageDoc, targetSlug)
         res == PageWrite(folders, docs, id, data, {"slug", "pageSegment", "slugHistory"},
                          [NoCtx EXCEPT !.skipSlugGeneration = TRUE])
     IN IF \/ collection = "" \/ targetSlug = <<>>
           \/ collection \notin CollectionSet
           \/ ~InHistory(pageDoc, targetSlug)
        THEN /\ UNCHANGED docs
             /\ DidIO("restore", "page", id, FALSE, targetSlug, "400", "",
                      [NoIO EXCEPT !.coll = collection])
        ELSE /\ docs' = res[1]
             /\ DidIO("restore", "page", id, FALSE, targetSlug, Completed(res[2]), "",
                      [NoIO EXCEPT !.coll = collection])
  /\ steps' = steps + 1
  /\ UNCHANGED <<inflight, wave, tree>>
  /\ UNCHANGED folders

\* POST /page-tree/edit-url, type folder
EditUrlFolder(id, segment, refused) ==
  /\ steps < MaxOps
  /\ LET res == FolderWrite(folders, docs, id,
                            [NoFolderRec EXCEPT !.pathSegment = slugify(segment)],
                            {"pathSegment"}, Ctx(TRUE, "rename"), refused)
     IN IF segment = <<>>
        THEN /\ UNCHANGED <<folders, docs>>
             /\ Did("editUrl", "folder", id, TRUE, segment, "400")
        ELSE /\ folders' = res[1]
             /\ docs' = res[2]
             /\ DidIO("editUrl", "folder", id, TRUE, segment, Completed(res[3]), "",
                      WriteIO(res))
  /\ steps' = steps + 1
  /\ UNCHANGED <<inflight, wave, tree>>

\* POST /page-tree/edit-url, type page
EditUrlPage(id, collection, segment) ==
  /\ steps < MaxOps
  /\ LET res == PageWrite(folders, docs, id,
                          [NoDocRec EXCEPT !.pageSegment = slugify(segment)],
                          {"pageSegment"}, Ctx(TRUE, "rename"))
     IN IF segment = <<>> \/ collection = "" \/ collection \notin CollectionSet
        THEN /\ UNCHANGED docs
             /\ DidIO("editUrl", "page", id, TRUE, segment, "400", "",
                      [NoIO EXCEPT !.coll = collection])
        ELSE /\ docs' = res[1]
             /\ DidIO("editUrl", "page", id, TRUE, segment, Completed(res[2]), "",
                      [NoIO EXCEPT !.coll = collection])
  /\ steps' = steps + 1
  /\ UNCHANGED <<inflight, wave, tree>>
  /\ UNCHANGED folders

\* A page saved through the collection's own editor or API: a write of the
\* title, of the pageSegment or of the folder, with no context; the lookup
\* of the folders in lost fails while the slug is built
EditorSavePage(id, field, text, folder, lost) ==
  /\ steps < MaxOps
  /\ LET data == [NoDocRec EXCEPT !.title = text, !.pageSegment = text,
                                  !.folder = folder]
         res == PageWrite(Without(folders, lost), docs, id, data, {field}, NoCtx)
     IN /\ docs' = res[1]
        /\ DidIO("editorSave", "page", id, FALSE, text, Completed(res[2]), field,
                 [NoIO EXCEPT !.lost = lost])
  /\ steps' = steps + 1
  /\ UNCHANGED <<inflight, wave, tree>>
  /\ UNCHANGED folders

\* A folder saved through the folders collection's own editor or API: a
\* write of the name, of the pathSegment or of the parent, with no context
EditorSaveFolder(id, field, text, parent) ==
  /\ steps < MaxOps
  /\ LET data == [NoFolderRec EXCEPT !.name = text, !.pathSegment = text,
                                     !.parent = parent]
         res == FolderWrite(folders, docs, id, data, {field}, NoCtx, {})
     IN /\ folders' = res[1]
        /\ docs' = res[2]
        /\ DidSave("folder", id, field, text, Completed(res[3]))
  /\ steps' = steps + 1
  /\ UNCHANGED <<inflight, wave, tree>>

\* POST or DELETE of a tree endpoint with no type or no id in the request:
\* "Missing required fields"
TypedRequests == {"move", "create", "delete", "rename", "editUrl"}

MissingTypeOrId(op) ==
  /\ steps < MaxOps
  /\ Did(op, "", 0, FALSE, <<>>, "400")
  /\ steps' = steps + 1
  /\ UNCHANGED <<inflight, wave, tree>>
  /\ UNCHANGED <<folders, docs>>

\* the slugs a restore request may name: those of the page's history, and
\* one that no page ever had
RestoreTargets(id) ==
  {docs[id].slugHistory[i].slug : i \in 1..Len(docs[id].slugHistory)}
    \cup {<<"z">>, <<>>}

\* the folders whose lookup fails during a request: none or one
LostChoices == {{}} \cup {{f} : f \in ExistingFolders}

\* the collection a request on a page names: the page's own, one that is not
\* configured, or none
RequestCollections(id) == {docs[id].coll, "media", ""}

ParentChoices == ExistingFolders \cup {NoFolder}

\* the documents whose write the storage refuses during a request: none or
\* one
RefusedChoices == {{}} \cup {{d} : d \in ExistingDocs}

Next ==
  \/ \E p \in ParentChoices, n \in NameInputs \cup {<<>>} : CreateFolder(p, n)
  \/ \E p \in ParentChoices, n \in TitleInputs \cup {<<>>}, c \in CollectionSet :
        CreatePage(p, n, c)
  \/ \E c \in CollectionSet, g \in {<<>>, <<"B">>}, p \in ParentChoices :
        EditorCreatePage(c, <<"C">>, g, p)
  \/ \E f \in ExistingFolders, p \in ParentChoices, i \in SortOrders, u \in BOOLEAN,
        r \in RefusedChoices : MoveFolder(f, p, i, u, r)
  \/ \E d \in DocIds, p \in ParentChoices, i \in SortOrders, u \in BOOLEAN :
        MovePage(d, p, i, u)
  \/ \E f \in ExistingFolders, i \in SortOrders : ReorderFolder(f, i)
  \/ \E d \in ExistingDocs, i \in SortOrders : ReorderPage(d, i)
  \/ \E d \in ExistingDocs, t \in Statuses : SetStatus(d, t)
  \/ \E d \in DocIds : DeletePage(d)
  \/ \E f \in ExistingFolders, c, e \in BOOLEAN : DeleteFolder(f, c, e)
  \/ \E d \in ExistingDocs : \E c \in {docs[d].coll, ""} : Duplicate(d, c)
  \/ \E f \in ExistingFolders, n \in NameInputs \cup {<<>>}, u \in BOOLEAN,
        r \in RefusedChoices : RenameFolder(f, n, u, r)
  \/ \E d \in ExistingDocs, n \in TitleInputs \cup {<<>>}, u \in BOOLEAN :
        RenamePage(d, n, u)
  \/ \E f \in ParentChoices : Regenerate(f)
  \/ \E c \in CollectionSet \cup {"", "media"} : Redirects(c)
  \/ Migrate
  \/ \E d \in ExistingDocs :
        \E c \in RequestCollections(d), t \in RestoreTargets(d) : RestoreSlug(d, c, t)
  \/ \E f \in ExistingFolders, g \in SegmentInputs \cup {<<>>}, r \in RefusedChoices :
        EditUrlFolder(f, g, r)
  \/ \E d \in ExistingDocs :
        \E c \in RequestCollections(d), g \in SegmentInputs \cup {<<>>} :
          EditUrlPage(d, c, g)
  \/ \E op \in TypedRequests : MissingTypeOrId(op)
  \/ \E d \in ExistingDocs, t \in TitleInputs :
        EditorSavePage(d, "title", t, NoFolder, {})
  \/ \E d \in ExistingDocs, t \in SegmentInputs \cup {<<>>}, l \in LostChoices :
        EditorSavePage(d, "pageSegment", t, NoFolder, l)
  \/ \E d \in ExistingDocs, p \in ParentChoices :
        EditorSavePage(d, "folder", <<>>, p, {})
  \/ \E f \in ExistingFolders, t \in NameInputs :
        EditorSaveFolder(f, "name", t, NoFolder)
  \/ \E f \in ExistingFolders, t \in SegmentInputs \cup {<<>>} :
        EditorSaveFolder(f, "pathSegment", t, NoFolder)
  \/ \E f \in ExistingFolders, p \in ParentChoices :
        EditorSaveFolder(f, "folder", <<>>, p)

Spec == Init /\ [][Next]_vars

\* ----------------------------------------------------- create, by names
\* The create endpoint against every set of sibling names: the stores are
\* root folders and root pages under names that creates, duplicates and
\* renames leave behind (a rename compares names exactly, so B and b can be
\* siblings), and one create request follows.
SiblingNames ==
  {<<"B">>, <<"b">>, CopyOfB,
   <<"b", " ", "(", "C", "o", "p", "y", " ", "2", ")">>,
   <<"B", "(", "c", "o", "p", "y", " ", "9", ")">>}
SiblingTitles2 == {<<"B">>, CopyOfB}
CreateNames ==
  {<<"B">>, CopyOfB, <<"b", " ", "(", "c", "o", "p", "y", " ", "2", ")">>, <<"!">>}

FolderNamed(n) == IF n = <<>> THEN NoFolderRec ELSE Folder(n, slugify(n), NoFolder)
PageTitled(t) ==
  IF t = <<>> THEN NoDocRec ELSE Page("pages", t, slugify(t), NoFolder, slugify(t))

InitCreate ==
  /\ \E names \in [1..(MaxFolders - 1) -> SiblingNames \cup {<<>>}] :
        folders = [f \in FolderIds |->
                     IF f < MaxFolders THEN FolderNamed(names[f]) ELSE NoFolderRec]
  /\ \E titles \in [1..(MaxDocs - 1) -> SiblingTitles2 \cup {<<>>}] :
        docs = [d \in DocIds |->
                  IF d < MaxDocs THEN PageTitled(titles[d]) ELSE NoDocRec]
  /\ steps = MaxOps - 1
  /\ last = [op |-> "none", kind |-> "", id |-> 0, us |-> FALSE, arg |-> <<>>,
             resp |-> "", field |-> "", io |-> NoIO]
  /\ inflight = NoRead
  /\ wave = NoWave
  /\ tree = NoTree

NextCreate ==
  \/ \E p \in ParentChoices, n \in CreateNames : CreateFolder(p, n)
  \/ \E p \in ParentChoices, n \in CreateNames, c \in CollectionSet :
        CreatePage(p, n, c)

SpecCreate == InitCreate /\ [][NextCreate]_vars

\* --------------------------------------------------- slugify, by strings
\* slugify on every string of at most MaxLen characters over a lower-case
\* and an upper-case letter, a digit, the underscore, a blank, a tab, the
\* hyphen and a character that is removed; it is applied to the input and
\* then to its own results.
NormalizeAlphabet == {"a", "B", "1", "_", " ", "\t", "-", "!"}

RECURSIVE StringsUpTo(_)
StringsUpTo(n) ==
  IF n = 0 THEN {<<>>}
  ELSE StringsUpTo(n - 1)
       \cup {Append(t, ch) : t \in StringsUpTo(n - 1), ch \in NormalizeAlphabet}

InitNormalize ==
  /\ folders = EmptyFolders
  /\ docs = EmptyDocs
  /\ steps = 0
  /\ \E text \in StringsUpTo(MaxLen) :
        last = [op |-> "none", kind |-> "", id |-> 0, us |-> FALSE, arg |-> text,
                resp |-> "", field |-> "", io |-> NoIO]
  /\ inflight = NoRead
  /\ wave = NoWave
  /\ tree = NoTree

\* slugify(text), text being the input or the result of the call before
Normalize ==
  /\ steps < MaxOps + 1
  /\ last' = [last EXCEPT !.op = "slugify", !.arg = slugify(last.arg),
                          !.io = [NoIO EXCEPT !.asked = last.arg]]
  /\ steps' = steps + 1
  /\ UNCHANGED <<inflight, wave, tree>>
  /\ UNCHANGED <<folders, docs>>

NextNormalize == Normalize

SpecNormalize == InitNormalize /\ [][NextNormalize]_vars

\* ------------------------------------------- regenerate after a cascade
\* Two requests on each initial store: a flagged folder write, whose cascade
\* the storage may interrupt by refusing a document write, and then a
\* regenerate.  Next to the initial stores there is the nested tree with a
\* post c in folder a, so that a cascade has two documents to write.
SiblingFolders == NestedFolders
SiblingDocs ==
  [NestedDocs EXCEPT ![2] = Page("posts", <<"c">>, <<"c">>, 1, <<"a", "/", "c">>)]

InitRecover ==
  /\ \E st \in Stores \cup {<<SiblingFolders, SiblingDocs>>} :
        folders = st[1] /\ docs = st[2]
  /\ steps = MaxOps - 2
  /\ last = [op |-> "none", kind |-> "", id |-> 0, us |-> FALSE, arg |-> <<>>,
             resp |-> "", field |-> "", io |-> NoIO]
  /\ inflight = NoRead
  /\ wave = NoWave
  /\ tree = NoTree

NextRecover ==
  \/ /\ last.op = "none"
     /\ \E f \in ExistingFolders, p \in ParentChoices, i \in SortOrders,
           r \in RefusedChoices : MoveFolder(f, p, i, TRUE, r)
  \/ /\ last.op = "none"
     /\ \E f \in ExistingFolders, n \in NameInputs, r \in RefusedChoices :
           RenameFolder(f, n, TRUE, r)
  \/ /\ last.op = "none"
     /\ \E f \in ExistingFolders, g \in SegmentInputs, r \in RefusedChoices :
           EditUrlFolder(f, g, r)
  \/ /\ last.op # "none"
     /\ \E f \in ParentChoices : Regenerate(f)

SpecRecover == InitRecover /\ [][NextRecover]_vars

\* ------------------------------------------ restore-slug, interleaved
\* A restore-slug request reads its document; another request that writes
\* the same store runs; the restore request writes.  The handler holds no
\* lock and passes no version to its update.
InitInterleave ==
  /\ \E st \in Stores : folders = st[1] /\ docs = st[2]
  /\ steps = MaxOps - 2
  /\ last = [op |-> "none", kind |-> "", id |-> 0, us |-> FALSE, arg |-> <<>>,
             resp |-> "", field |-> "", io |-> NoIO]
  /\ inflight = NoRead
  /\ wave = NoWave
  /\ tree = NoTree

NextInterleave ==
  \/ \E d \in ExistingDocs : \E t \in RestoreTargets(d) : RestoreRead(d, t)
  \/ /\ inflight # NoRead
     /\ \E f \in ExistingFolders, p \in ParentChoices, i \in SortOrders :
           MoveFolder(f, p, i, TRUE, {})
  \/ /\ inflight # NoRead
     /\ \E f \in ExistingFolders, g \in SegmentInputs : EditUrlFolder(f, g, {})
  \/ /\ inflight # NoRead
     /\ \E f \in ParentChoices : Regenerate(f)
  \/ /\ inflight # NoRead
     /\ \E d \in ExistingDocs, p \in ParentChoices, i \in SortOrders, u \in BOOLEAN :
           MovePage(d, p, i, u)
  \/ /\ inflight # NoRead
     /\ \E d \in ExistingDocs, n \in TitleInputs : RenamePage(d, n, TRUE)
  \/ RestoreWrite

SpecInterleave == InitInterleave /\ [][NextInterleave]_vars

\* ------------------------------------------ regenerate, twice
\* On each initial store: at most one folder move, flagged or not, then
\* regenerate requests for one and the same folder (or for everything), one
\* after the other.
InitAgain ==
  /\ \E st \in Stores \cup {<<SiblingFolders, SiblingDocs>>} :
        folders = st[1] /\ docs = st[2]
  /\ steps = MaxOps - 3
  /\ last = [op |-> "none", kind |-> "", id |-> 0, us |-> FALSE, arg |-> <<>>,
             resp |-> "", field |-> "", io |-> NoIO]
  /\ inflight = NoRead
  /\ wave = NoWave
  /\ tree = NoTree

NextAgain ==
  \/ /\ last.op = "none"
     /\ \E f \in ExistingFolders, p \in ParentChoices, i \in SortOrders, u \in BOOLEAN :
           MoveFolder(f, p, i, u, {})
  \/ /\ last.op # "regenerate"
     /\ \E f \in ParentChoices : Regenerate(f)
  \/ /\ last.op = "regenerate" /\ last.resp = "ok"
     /\ Regenerate(last.id)

SpecAgain == InitAgain /\ [][NextAgain]_vars

\* ------------------------------------------ the tree assembler
\* buildTreeStructure(folders, pages): the nodes are kept by reference in the
\* source; here folderMap holds the folder nodes under their raw ids,
\* pageNodes the page nodes under their tree ids, and a children list or the
\* tree holds tree ids.
FolderPrefix == <<"f", "o", "l", "d", "e", "r", "-">>
PagePrefix == <<"p", "a", "g", "e", "-">>

\* null, for an id
Null == <<>>

\* String(id) of a folder or page id; null for no folder
getFolderIdAsString(folder) == IF folder = NoFolder THEN Null ELSE NatToStr(folder)

\* the node of the first pass
FolderNode(f, folder) ==
  LET parentRawId == getFolderIdAsString(folder.parent)
  IN [id |-> FolderPrefix \o NatToStr(f), type |-> "folder", name |-> folder.name,
      children |-> <<>>, pageCount |-> 0,
      folderId |-> IF parentRawId # Null THEN FolderPrefix \o parentRawId ELSE Null,
      sortOrder |-> folder.sortOrder, rawId |-> NatToStr(f)]

PageNode(d, page) ==
  LET folderRawId == getFolderIdAsString(page.folder)
  IN [id |-> PagePrefix \o NatToStr(d), type |-> "page",
      name |-> IF page.title # <<>> THEN page.title
               ELSE <<"P", "a", "g", "e", " ">> \o NatToStr(d),
      children |-> <<>>, pageCount |-> 0,
      folderId |-> IF folderRawId # Null THEN FolderPrefix \o folderRawId ELSE Null,
      sortOrder |-> page.sortOrder, rawId |-> NatToStr(d)]

\* folderMap.has(key)
Has(folderMap, key) == key \in DOMAIN folderMap

\* updatePageCounts(node, folderMap), node being folderMap.get(key): the map
\* with the counts of the node and of the nodes the recursion reaches
RECURSIVE updatePageCounts(_, _)
updatePageCounts(key, folderMap) ==
  LET counted == [folderMap EXCEPT ![key].pageCount = @ + 1]
      node == counted[key]
  IN IF node.folderId # Null /\ Has(counted, node.folderId)
     THEN updatePageCounts(node.folderId, counted)
     ELSE counted

\* the second pass over the folders list, from its i-th entry on:
\* <<folderMap, rootFolders>>
RECURSIVE BuildHierarchy(_, _, _, _, _)
BuildHierarchy(F, list, i, folderMap, rootFolders) ==
  IF i > Len(list) THEN <<folderMap, rootFolders>>
  ELSE LET rawId == NatToStr(list[i])
           node == folderMap[rawId]
           parentRawId == getFolderIdAsString(F[list[i]].parent)
       IN IF parentRawId # Null /\ Has(folderMap, parentRawId)
          THEN BuildHierarchy(F, list, i + 1,
                 [folderMap EXCEPT ![parentRawId].children = Append(@, node.id)],
                 rootFolders)
          ELSE BuildHierarchy(F, list, i + 1, folderMap, Append(rootFolders, node.id))

\* the loop over the pages list, from its i-th entry on:
\* <<folderMap, rootPages>>
RECURSIVE AddPages(_, _, _, _, _)
AddPages(D, list, i, folderMap, rootPages) ==
  IF i > Len(list) THEN <<folderMap, rootPages>>
  ELSE LET pageNode == PageNode(list[i], D[list[i]])
           folderRawId == getFolderIdAsString(D[list[i]].folder)
       IN IF folderRawId # Null /\ Has(folderMap, folderRawId)
          THEN AddPages(D, list, i + 1,
                 updatePageCounts(folderRawId,
                   [folderMap EXCEPT ![folderRawId].children = Append(@, pageNode.id)]),
                 rootPages)
          ELSE AddPages(D, list, i + 1, folderMap, Append(rootPages, pageNode.id))

\* a.name.localeCompare(b.name) < 0, for names over the letters in use
Letters == <<"a", "b", "c", "d", "e", "p", "q", "r", "s">>
LetterRank(ch) ==
  IF \E i \in 1..Len(Letters) : Letters[i] = ch
  THEN CHOOSE i \in 1..Len(Letters) : Letters[i] = ch
  ELSE 0

RECURSIVE NameBefore(_, _)
NameBefore(a, b) ==
  IF b = <<>> THEN FALSE
  ELSE IF a = <<>> THEN TRUE
  ELSE IF LetterRank(Head(a)) # LetterRank(Head(b))
       THEN LetterRank(Head(a)) < LetterRank(Head(b))
  ELSE NameBefore(Tail(a), Tail(b))

\* the comparator of sortNodes is negative
NodeBefore(a, b) ==
  IF a.sortOrder # b.sortOrder THEN a.sortOrder < b.sortOrder
  ELSE IF a.type # b.type THEN a.type = "folder"
  ELSE NameBefore(a.name, b.name)

\* the node a tree id stands for
NodeOf(folderMap, pageNodes, id) ==
  IF id \in DOMAIN pageNodes THEN pageNodes[id]
  ELSE folderMap[CHOOSE k \in DOMAIN folderMap : folderMap[k].id = id]

\* nodes.sort(comparator): a stable sort of a list of tree ids
RECURSIVE SortIds(_, _, _)
SortIds(ids, folderMap, pageNodes) ==
  IF ids = <<>> THEN <<>>
  ELSE LET before(x, y) == NodeBefore(NodeOf(folderMap, pageNodes, x),
                                      NodeOf(folderMap, pageNodes, y))
           k == CHOOSE i \in 1..Len(ids) :
                  /\ \A j \in 1..Len(ids) : ~before(ids[j], ids[i])
                  /\ \A j \in 1..(i - 1) : before(ids[i], ids[j])
                                            \/ \E m \in 1..Len(ids) : before(ids[m], ids[j])
       IN <<ids[k]>> \o
          SortIds(SubSeq(ids, 1, k - 1) \o SubSeq(ids, k + 1, Len(ids)),
                  folderMap, pageNodes)

\* the existing slots of a store as the list a find returns, by id
RECURSIVE ListOf(_)
ListOf(S) ==
  IF S = {} THEN <<>>
  ELSE LET m == CHOOSE x \in S : \A y \in S : x <= y
       IN <<m>> \o ListOf(S \ {m})

buildTreeStructure(F, D) ==
  LET folderList == ListOf({f \in FolderIds : F[f].exists})
      pageList == ListOf({d \in DocIds : D[d].exists})
      firstPass == [k \in {NatToStr(f) : f \in {g \in FolderIds : F[g].exists}} |->
                      LET f == CHOOSE g \in FolderIds : F[g].exists /\ NatToStr(g) = k
                      IN FolderNode(f, F[f])]
      second == BuildHierarchy(F, folderList, 1, firstPass, <<>>)
      paged == AddPages(D, pageList, 1, second[1], <<>>)
      pageNodes == [id \in {PagePrefix \o NatToStr(d) : d \in {e \in DocIds : D[e].exists}} |->
                      LET d == CHOOSE e \in DocIds :
                                 D[e].exists /\ PagePrefix \o NatToStr(e) = id
                      IN PageNode(d, D[d])]
      sorted == [k \in DOMAIN paged[1] |->
                   [paged[1][k] EXCEPT !.children = SortIds(@, paged[1], pageNodes)]]
  IN [folderMap |-> sorted, pageNodes |-> pageNodes,
      tree |-> SortIds(second[2] \o paged[2], sorted, pageNodes)]

\* The flat records: each folder's parent is a folder of the set or none,
\* no folder is its own ancestor, each page's folder is a folder of the set
\* or none.
RECURSIVE ReachesRoot(_, _, _)
ReachesRoot(f, F, fuel) ==
  IF f = NoFolder THEN TRUE
  ELSE fuel > 0 /\ F[f].exists /\ ReachesRoot(F[f].parent, F, fuel - 1)

IsForest(F, D) ==
  /\ \A f \in FolderIds : F[f].exists => ReachesRoot(f, F, MaxFolders)
  /\ \A d \in DocIds :
       D[d].exists => IF D[d].folder = NoFolder THEN TRUE ELSE F[D[d].folder].exists

TreeFolderNames == <<<<"a">>, <<"b">>, <<"c">>, <<"d">>, <<"e">>>>
TreePageTitles == <<<<"p">>, <<"q">>, <<"r">>, <<"s">>>>

InitTree ==
  /\ \E S \in SUBSET FolderIds, P \in SUBSET DocIds :
       \E parent \in [S -> S \cup {NoFolder}], folder \in [P -> S \cup {NoFolder}] :
         /\ folders = [f \in FolderIds |->
                         IF f \in S
                         THEN Folder(TreeFolderNames[f], TreeFolderNames[f], parent[f])
                         ELSE NoFolderRec]
         /\ docs = [d \in DocIds |->
                      IF d \in P
                      THEN Page("pages", TreePageTitles[d], TreePageTitles[d], folder[d],
                                TreePageTitles[d])
                      ELSE NoDocRec]
         /\ IsForest(folders, docs)
  /\ steps = 0
  /\ last = [op |-> "none", kind |-> "", id |-> 0, us |-> FALSE, arg |-> <<>>,
             resp |-> "", field |-> "", io |-> NoIO]
  /\ inflight = NoRead
  /\ wave = NoWave
  /\ tree = NoTree

\* the tree view assembles the tree of the records it fetched
AssembleTree ==
  /\ tree = NoTree
  /\ tree' = buildTreeStructure(folders, docs)
  /\ UNCHANGED <<folders, docs, steps, last, inflight, wave>>

NextTree == AssembleTree

SpecTree == InitTree /\ [][NextTree]_vars

\* ------------------------------------------ from the empty store
\* Three requests in a row on a store that the plugin alone has filled.
InitEmpty ==
  /\ folders = EmptyFolders /\ docs = EmptyDocs
  /\ steps = MaxOps - 3
  /\ last = [op |-> "none", kind |-> "", id |-> 0, us |-> FALSE, arg |-> <<>>,
             resp |-> "", field |-> "", io |-> NoIO]
  /\ inflight = NoRead
  /\ wave = NoWave
  /\ tree = NoTree

SpecFromEmpty == InitEmpty /\ [][Next]_vars

\* ------------------------------------------ recursive delete, in waves
\* deleteFolderRecursive as its storage calls are issued and completed.
\* wave.pagesOut and wave.foldersOut count the delete calls that were issued
\* and have not completed; the synchronous code between two awaits is one
\* action, a completion is another.
batchSize == 10

\* the sizes of the batches the loop over docs makes: docs.slice(i, i + 10)
RECURSIVE Batches(_, _)
Batches(n, size) ==
  IF n <= 0 THEN <<>>
  ELSE <<(IF n < size THEN n ELSE size)>> \o Batches(n - size, size)

RECURSIVE SumSeq(_)
SumSeq(q) == IF q = <<>> THEN 0 ELSE Head(q) + SumSeq(Tail(q))

\* after collectAllFolderIds: allFolderIds holds 1..MaxTree folders
InitWaves ==
  /\ folders = EmptyFolders /\ docs = EmptyDocs
  /\ steps = 0
  /\ last = [op |-> "none", kind |-> "", id |-> 0, us |-> FALSE, arg |-> <<>>,
             resp |-> "", field |-> "", io |-> NoIO]
  /\ inflight = NoRead
  /\ tree = NoTree
  /\ \E n \in 1..MaxTree :
       wave = [pc |-> "pages", left |-> Collections, pagesOut |-> 0,
               toDelete |-> n, foldersOut |-> 0]

\* one turn of the loop over collections: the find returns found documents,
\* and every batch of them is mapped to payload.delete calls at once; the
\* batches are pushed to pageDeletePromises, none is awaited here
FindAndDeletePages(found) ==
  /\ wave.pc = "pages" /\ wave.left # <<>>
  /\ wave' = [wave EXCEPT !.left = Tail(wave.left),
                          !.pagesOut = @ + SumSeq(Batches(found, batchSize))]
  /\ UNCHANGED <<folders, docs, steps, last, inflight, tree>>

\* a payload.delete of a document completes
PageDeleteDone ==
  /\ wave.pagesOut > 0
  /\ wave' = [wave EXCEPT !.pagesOut = @ - 1]
  /\ UNCHANGED <<folders, docs, steps, last, inflight, tree>>

\* await Promise.all(pageDeletePromises)
AwaitPages ==
  /\ wave.pc = "pages" /\ wave.left = <<>> /\ wave.pagesOut = 0
  /\ wave' = [wave EXCEPT !.pc = "folders"]
  /\ UNCHANGED <<folders, docs, steps, last, inflight, tree>>

\* one turn of the loop over foldersToDelete: a batch of up to five deletes
\* is issued, and awaited before the next turn
DeleteFolderBatch ==
  /\ wave.pc = "folders" /\ wave.foldersOut = 0 /\ wave.toDelete > 0
  /\ LET batch == Batches(wave.toDelete, FOLDER_BATCH_SIZE)[1]
     IN wave' = [wave EXCEPT !.toDelete = @ - batch, !.foldersOut = batch]
  /\ UNCHANGED <<folders, docs, steps, last, inflight, tree>>

\* a payload.delete of a folder completes
FolderDeleteDone ==
  /\ wave.foldersOut > 0
  /\ wave' = [wave EXCEPT !.foldersOut = @ - 1]
  /\ UNCHANGED <<folders, docs, steps, last, inflight, tree>>

\* the loop over foldersToDelete ends; the function returns
WavesDone ==
  /\ wave.pc = "folders" /\ wave.foldersOut = 0 /\ wave.toDelete = 0
  /\ wave' = [wave EXCEPT !.pc = "done"]
  /\ UNCHANGED <<folders, docs, steps, last, inflight, tree>>

NextWaves ==
  \/ \E found \in 0..MaxFound : FindAndDeletePages(found)
  \/ PageDeleteDone
  \/ AwaitPages
  \/ DeleteFolderBatch
  \/ FolderDeleteDone
  \/ WavesDone

SpecWaves == InitWaves /\ [][NextWaves]_vars

\* ------------------------------------------------------------- properties
\* Definitions the properties are stated with.  Parent chains and subtrees
\* are read off the parent references of the store, not through
\* getAllChildFolderIds; only SlugAt uses the program's path resolution.

ABC == <<"a", "/", "b", "/", "c">>
BBC == <<"b", "/", "b", "/", "c">>

\* every folder from f up to the root exists and has a pathSegment
RECURSIVE ChainEnds(_, _, _)
ChainEnds(f, F, fuel) ==
  \/ f = NoFolder
  \/ /\ fuel > 0
     /\ F[f].exists
     /\ F[f].pathSegment # <<>>
     /\ ChainEnds(F[f].parent, F, fuel - 1)

\* the pathSegments from the root folder down to f
RECURSIVE ChainSegments(_, _, _)
ChainSegments(f, F, fuel) ==
  IF f = NoFolder \/ fuel = 0 THEN <<>>
  ELSE ChainSegments(F[f].parent, F, fuel - 1) \o <<F[f].pathSegment>>

RECURSIVE JoinSlash(_)
JoinSlash(segs) ==
  IF Len(segs) = 1 THEN segs[1]
  ELSE segs[1] \o <<"/">> \o JoinSlash(Tail(segs))

\* g is f or lies below f
RECURSIVE IsUnder(_, _, _, _)
IsUnder(g, f, F, fuel) ==
  /\ g # NoFolder
  /\ \/ g = f
     \/ fuel > 0 /\ F[g].exists /\ IsUnder(F[g].parent, f, F, fuel - 1)

InSubtree(g, f, F) == IsUnder(g, f, F, MaxFolders)

\* the slug of a document with local segment c in folder f, by the path
\* resolution of the program
SlugAt(f, c, F) ==
  IF getFolderPath(f, F) # <<>> THEN getFolderPath(f, F) \o <<"/">> \o c ELSE c

\* the local segment of a stored document
LocalOf(doc) ==
  IF doc.pageSegment # <<>> THEN doc.pageSegment ELSE slugify(doc.title)

\* the last request was a write of an existing document d
PageUpdate(d) ==
  /\ last'.kind = "page"
  /\ last'.id = d
  /\ last'.op \in {"move", "reorder", "status", "rename", "restore", "editUrl",
                   "editorSave"}
  /\ last'.resp = "ok"
  /\ docs[d].exists
  /\ docs'[d].exists

\* the last request was a write of an existing folder f
FolderUpdate(f) ==
  /\ last'.kind = "folder"
  /\ last'.id = f
  /\ last'.op \in {"move", "reorder", "rename", "editUrl", "editorSave"}
  /\ folders[f].exists

\* the pageSegment value an editor save carried, as the field hook stores it
CarriedSegmentDiffers(d) ==
  /\ last'.op = "editorSave"
  /\ last'.field = "pageSegment"
  /\ PageSegmentFieldHook(last'.arg) # docs[d].pageSegment

C2_SlugOnCreate ==
  [][\A d \in DocIds :
       LET c == IF last'.op = "editorCreate" /\ slugify(last'.arg) # <<>>
                THEN slugify(last'.arg)
                ELSE slugify(docs'[d].title)
       IN (/\ last'.op \in {"create", "editorCreate", "duplicate"}
           /\ last'.kind = "page"
           /\ last'.id = d
           /\ docs'[d].exists
           /\ c # <<>>
           /\ ChainEnds(docs'[d].folder, folders, MaxFolders))
          => /\ ~docs[d].exists
             /\ last'.resp = "ok"
             /\ docs'[d].pageSegment = c
             /\ docs'[d].slug =
                  JoinSlash(ChainSegments(docs'[d].folder, folders, MaxFolders)
                            \o <<c>>)]_vars

\* a page with title C has been created in folder b of a/b
C2_Witness ==
  /\ last.op = "create"
  /\ last.kind = "page"
  /\ last.resp = "ok"
  /\ docs[last.id].folder = 2
  /\ folders[2].parent = 1
  /\ docs[last.id].title = <<"C">>
  /\ docs[last.id].slug = ABC

\* ---- C3
\* the last request was a flagged folder write that changed the pathSegment
\* or the parent of f and ran to its end, the storage refusing no write
FlaggedChange(f) ==
  /\ FolderUpdate(f)
  /\ last'.us
  /\ last'.resp = "ok"
  /\ last'.io.failed = {}
  /\ \/ folders'[f].pathSegment # folders[f].pathSegment
     \/ folders'[f].parent # folders[f].parent

\* C3, as stated: after a completed folder write flagged updateSlugs that
\* changed pathSegment or parent, every document in the folder or below it
\* has the slug its folder path and its local segment give.
C3_Original ==
  [][\A f \in FolderIds :
       FlaggedChange(f) =>
         \A d \in DocIds :
           (docs'[d].exists /\ InSubtree(docs'[d].folder, f, folders'))
           => docs'[d].slug = SlugAt(docs'[d].folder, LocalOf(docs'[d]), folders')]_vars

\* C3 (amended): after such a write every document in the folder or below
\* it that has a non-empty local segment has the slug its folder path and
\* that segment give, and a document without one keeps the slug it had.
C3_CascadeReach ==
  [][\A f \in FolderIds :
       FlaggedChange(f) =>
         \A d \in DocIds :
           (docs'[d].exists /\ InSubtree(docs'[d].folder, f, folders'))
           => IF LocalOf(docs[d]) # <<>>
              THEN docs'[d].slug = SlugAt(docs'[d].folder, LocalOf(docs[d]), folders')
              ELSE docs'[d].slug = docs[d].slug]_vars

\* the URL segment of folder a was edited to b and the page two levels
\* below follows
C3_Witness ==
  /\ last.op = "editUrl"
  /\ last.kind = "folder"
  /\ last.id = 1
  /\ last.resp = "ok"
  /\ folders[1].pathSegment = <<"b">>
  /\ docs[1].folder = 2
  /\ folders[2].parent = 1
  /\ docs[1].slug = BBC
  /\ Len(docs[1].slugHistory) = 1
  /\ docs[1].slugHistory[1].slug = ABC

\* ---- C4
\* C4: a write of folder f, cascade included, leaves every document whose
\* folder is neither f nor below f as it was.
C4_CascadeFrame ==
  [][\A f \in FolderIds :
       FolderUpdate(f) =>
         \A d \in DocIds :
           ~InSubtree(docs[d].folder, f, folders') => docs'[d] = docs[d]]_vars

\* a cascade ran below folder 1 while the page in folder 3 kept a slug that
\* its folder and title do not give
C4_Witness ==
  /\ last.op = "editUrl"
  /\ last.kind = "folder"
  /\ last.id = 1
  /\ last.resp = "ok"
  /\ docs[1].slug = BBC
  /\ docs[2].exists
  /\ docs[2].folder = 3
  /\ ~InSubtree(3, 1, folders)
  /\ docs[2].slug = <<"o", "l", "d">>

ReasonGiven(d) ==
  IF last'.kind = "page" /\ last'.id = d
  THEN CASE last'.op = "move" -> "move"
         [] last'.op \in {"rename", "editUrl"} -> "rename"
         [] OTHER -> "manual"
  ELSE IF last'.op = "regenerate" THEN "regenerate"
  ELSE "manual"

SlugChanged(d) ==
  /\ docs[d].exists
  /\ docs'[d].exists
  /\ docs[d].slug # <<>>
  /\ docs'[d].slug # docs[d].slug

\* C6, as stated: an update that changes a stored non-empty slug P stores
\* the history made of one new entry for P followed by the previous
\* history, cut to 20 entries.
C6_Original ==
  [][\A d \in DocIds :
       SlugChanged(d) =>
         \E r \in {"move", "rename", "regenerate", "restore", "manual"} :
           docs'[d].slugHistory =
             Take(<<HistoryEntry(docs[d].slug, r)>> \o docs[d].slugHistory, 20)]_vars

\* C6 (amended): an update other than restore-slug that changes a stored
\* non-empty slug P stores one new entry for P, with the reason the write
\* was given or manual, followed by the previous history in its order, cut
\* to 20 entries; restore-slug stores the entry for P with reason restore
\* followed by the previous history without the entries of the restored
\* slug.
C6_HistoryPrepend ==
  [][\A d \in DocIds :
       SlugChanged(d) =>
         IF last'.op = "restore"
         THEN docs'[d].slugHistory =
                Take(<<HistoryEntry(docs[d].slug, "restore")>> \o
                       SelectSeq(docs[d].slugHistory,
                                 LAMBDA h : h.slug # docs'[d].slug), 20)
         ELSE docs'[d].slugHistory =
                Take(<<HistoryEntry(docs[d].slug, ReasonGiven(d))>> \o
                       docs[d].slugHistory, 20)]_vars

\* a cascade changed the slug of a page that had 20 history entries: the
\* new entry is first and the oldest is gone
C6_Witness ==
  /\ last.op = "editUrl"
  /\ last.kind = "folder"
  /\ last.resp = "ok"
  /\ docs[1].slug = ABC
  /\ Len(docs[1].slugHistory) = 20
  /\ docs[1].slugHistory[1] = HistoryEntry(BBC, "manual")
  /\ docs[1].slugHistory[2] = HistoryEntry(ABC, "manual")
  /\ docs[1].slugHistory[20] = HistoryEntry(ABC, "manual")

\* ---- C7
\* C7: in every reachable state every document's slugHistory has at most 20
\* entries.
C7_HistoryBound ==
  \A d \in DocIds : Len(docs[d].slugHistory) <= 20

\* a page with a full history was moved with updateSlugs and still has 20
\* entries, the move first
C7_Witness ==
  /\ last.op = "move"
  /\ last.kind = "page"
  /\ last.us
  /\ Len(docs[last.id].slugHistory) = 20
  /\ docs[last.id].slugHistory[1].reason = "move"

\* ---- C8
\* a restore of slug S = last'.arg of document d succeeded
Restored(d) ==
  /\ last'.op = "restore"
  /\ last'.id = d
  /\ last'.resp = "ok"

C9_Original ==
  [][\A d \in DocIds :
       (/\ PageUpdate(d)
        /\ last'.op = "move"
        /\ ~last'.us
        /\ docs'[d].folder # docs[d].folder)
       => /\ docs'[d].slug = docs[d].slug
          /\ docs'[d].slugHistory = docs[d].slugHistory]_vars

\* ---- C10
\* folder g lies on a cycle of parent references
OnCycle(g, F) == F[g].exists /\ F[g].parent # NoFolder /\ InSubtree(F[g].parent, g, F)

\* C10, as stated: a move of a folder under itself or under one of its
\* descendants is rejected, and no move puts a folder on a cycle of parent
\* references.
C10_Original ==
  [][\A f \in FolderIds :
       (/\ last'.op = "move"
        /\ last'.kind = "folder"
        /\ last'.id = f
        /\ \A g \in FolderIds : ~OnCycle(g, folders))
       => /\ \A g \in FolderIds : ~OnCycle(g, folders')
          /\ InSubtree(folders'[f].parent, f, folders) => last'.resp \notin {"ok", "hang"}]_vars

\* ---- C11
\* the reason that belongs to the endpoint operation of the last request
ReasonOfOperation ==
  CASE last'.op = "move" -> "move"
    [] last'.op \in {"rename", "editUrl"} -> "rename"
    [] OTHER -> "regenerate"

\* C11, as stated: after a move, rename, edit-url or regenerate request,
\* every document whose stored non-empty slug changed, the target itself or
\* a document reached through the folder cascade, has a first history entry
\* made of its prior slug and the reason of that operation.
C11_Original ==
  [][\A d \in DocIds :
       (/\ last'.op \in {"move", "rename", "editUrl", "regenerate"}
        /\ last'.resp = "ok"
        /\ SlugChanged(d))
       => /\ docs'[d].slugHistory # <<>>
          /\ docs'[d].slugHistory[1] =
               HistoryEntry(docs[d].slug, ReasonOfOperation)]_vars

\* ---- C12
\* the last request was a recursive delete of folder f that was answered
\* with success
RecursiveDelete(f) ==
  /\ last'.op = "delete"
  /\ last'.kind = "folder"
  /\ last'.id = f
  /\ last'.us
  /\ last'.resp = "ok"
  /\ folders[f].exists

\* C12: after a successful delete of folder f with deleteChildren, no
\* document of f or of a folder below f is left, f and the folders below it
\* are gone, and every folder and document outside the subtree of f is
\* stored as it was.
C12_RecursiveDelete ==
  [][\A f \in FolderIds :
       RecursiveDelete(f) =>
         /\ \A d \in DocIds :
              IF docs[d].exists /\ InSubtree(docs[d].folder, f, folders)
              THEN ~docs'[d].exists
              ELSE docs'[d] = docs[d]
         /\ \A g \in FolderIds :
              IF InSubtree(g, f, folders)
              THEN ~folders'[g].exists
              ELSE folders'[g] = folders[g]]_vars

\* folder a was deleted with its child folder b and the page in b
C12_Witness ==
  /\ last.op = "delete"
  /\ last.kind = "folder"
  /\ last.id = 1
  /\ last.us
  /\ last.resp = "ok"
  /\ Len(last.io.order) = 2
  /\ ~folders[1].exists
  /\ ~folders[2].exists
  /\ ~docs[1].exists

\* ---- C13
\* C13, as stated: in a delete with deleteChildren, whatever the order in
\* which the issued deletions take effect, no folder is deleted before a
\* folder below it.
C13_Original ==
  [][(/\ last'.op = "delete"
      /\ last'.kind = "folder"
      /\ last'.us)
     => \A i, j \in 1..Len(last'.io.order) :
          (i < j /\ last'.io.order[i] # last'.io.order[j])
          => ~InSubtree(last'.io.order[j], last'.io.order[i], folders)]_vars

\* ---- C14
\* C14, as stated: a delete of a folder without deleteChildren, while a
\* folder or a document still refers to it, is answered with an error and
\* deletes nothing.
C14_Original ==
  [][\A f \in FolderIds :
       (/\ last'.op = "delete"
        /\ last'.kind = "folder"
        /\ last'.id = f
        /\ ~last'.us
        /\ Referenced(f, folders, docs))
       => /\ last'.resp = "500"
          /\ folders' = folders
          /\ docs' = docs]_vars

\* ---- C15
\* the last request was a flagged folder write of f whose cascade ran
Cascaded(f) ==
  /\ FolderUpdate(f)
  /\ last'.us
  /\ last'.resp = "ok"
  /\ folders'[f].exists
  /\ \/ folders'[f].pathSegment # folders[f].pathSegment
     \/ folders'[f].parent # folders[f].parent

\* C15, as stated: when the storage refuses the write of one document
\* during a cascade, the write of every other document in the changed
\* folder or below it is still issued, and the folder write is stored.
C15_Original ==
  [][\A f \in FolderIds :
       (Cascaded(f) /\ last'.io.failed # {})
       => \A d \in DocIds :
            (docs[d].exists /\ InSubtree(docs[d].folder, f, folders'))
            => \E i \in 1..Len(last'.io.issued) : last'.io.issued[i] = d]_vars

\* ---- C16
\* no folder lies on a cycle of parent references
Acyclic(F) == \A g \in FolderIds : ~OnCycle(g, F)

\* C16: the hook of a folder write that carries the cascading marker, as
\* the writes of a cascade do, starts no cascade whatever the write changed;
\* and a folder write on an acyclic tree ends, writes each document at most
\* once, only documents of the changed folder or below it, and leaves every
\* other folder as it was.
C16_LoopPrevention ==
  [][/\ \A f \in FolderIds, p \in FolderIds \cup {NoFolder},
          g \in SegmentInputs \cup {<<>>} :
          ~CascadeRuns([folders'[f] EXCEPT !.pathSegment = g, !.parent = p],
                       folders[f], CascadeCtx)
     /\ \A f \in FolderIds :
          (FolderUpdate(f) /\ Acyclic(folders'))
          => /\ last'.resp # "hang"
             /\ \A i, j \in 1..Len(last'.io.issued) :
                  i # j => last'.io.issued[i] # last'.io.issued[j]
             /\ \A i \in 1..Len(last'.io.issued) :
                  InSubtree(docs[last'.io.issued[i]].folder, f, folders')
             /\ \A g \in FolderIds \ {f} : folders'[g] = folders[g]]_vars

\* the cascade of a folder move wrote both pages of the folder, once each
C16_Witness ==
  /\ last.op = "move"
  /\ last.kind = "folder"
  /\ last.id = 2
  /\ last.us
  /\ last.resp = "ok"
  /\ last.io.issued = <<1, 2>>
  /\ folders[2].parent = NoFolder
  /\ docs[1].slug = <<"b", "/", "c">>

\* ---- C17
\* C17: a folder write flagged updateSlugs that leaves the pathSegment and
\* the parent of the folder as they were (a new name or sortOrder only)
\* issues no document write and changes no document.
C17_TriggerCondition ==
  [][\A f \in FolderIds :
       (/\ FolderUpdate(f)
        /\ last'.us
        /\ folders'[f].pathSegment = folders[f].pathSegment
        /\ folders'[f].parent = folders[f].parent)
       => /\ docs' = docs
          /\ last'.io.issued = <<>>]_vars

\* root folder 1 was moved within the root level with updateSlugs: the page
\* below it still has the stale slug a/b/c under the path b/b
C17_Witness ==
  /\ last.op = "move"
  /\ last.kind = "folder"
  /\ last.id = 1
  /\ last.us
  /\ last.resp = "ok"
  /\ folders[1].parent = NoFolder
  /\ folders[1].sortOrder = 1
  /\ getFolderPath(docs[1].folder, folders) = <<"b", "/", "b">>
  /\ docs[1].pageSegment = <<"c">>
  /\ docs[1].slug = ABC

\* ---- C18
\* the documents a regenerate request for folder f is about (f = NoFolder:
\* no folder given)
RegenerateScope(f) ==
  {d \in DocIds : /\ docs[d].exists
                  /\ docs[d].coll \in CollectionSet
                  /\ f = NoFolder \/ InSubtree(docs[d].folder, f, folders)}

\* C18: after a completed regenerate for folder f, every document in f or
\* below it (every document, when no folder is given) that has a local
\* segment has the slug its folder path and that segment give, whatever its
\* slug was before, and the count of the response is the number of
\* documents written, which is the number of documents in that scope.
C18_Regenerate ==
  [][\A f \in FolderIds \cup {NoFolder} :
       (/\ last'.op = "regenerate"
        /\ last'.id = f
        /\ last'.resp = "ok")
       => /\ \A d \in RegenerateScope(f) :
               LocalOf(docs[d]) # <<>>
               => docs'[d].slug = SlugAt(docs[d].folder, LocalOf(docs[d]), folders)
          /\ last'.io.count = Len(last'.io.issued)
          /\ last'.io.count = Cardinality(RegenerateScope(f))]_vars

\* regenerate for folder 1 rebuilt the stale slug a/b/c of the page two
\* levels below to b/b/c and counted one document
C18_Witness ==
  /\ last.op = "regenerate"
  /\ last.id = 1
  /\ last.resp = "ok"
  /\ last.io.count = 1
  /\ docs[1].folder = 2
  /\ folders[2].parent = 1
  /\ docs[1].slug = BBC
  /\ docs[1].slugHistory = <<HistoryEntry(ABC, "regenerate")>>

\* ---- C19
\* every folder from f up to the root exists (and the chain ends)
RECURSIVE ChainExists(_, _, _)
ChainExists(f, F, fuel) ==
  \/ f = NoFolder
  \/ /\ fuel > 0
     /\ F[f].exists
     /\ ChainExists(F[f].parent, F, fuel - 1)

\* the '/'-join of the non-empty segments of a chain
JoinNonEmpty(segs) ==
  IF SelectSeq(segs, LAMBDA g : g # <<>>) = <<>> THEN <<>>
  ELSE JoinSlash(SelectSeq(segs, LAMBDA g : g # <<>>))

\* C19, as stated: the path resolved for a folder is the '/'-join of the
\* non-empty pathSegments of its whole chain from the root down, also when
\* a folder of the chain has no pathSegment.
C19_Original ==
  \A f \in FolderIds :
    (folders[f].exists /\ ChainExists(f, folders, MaxFolders))
    => getFolderPath(f, folders) =
         JoinNonEmpty(ChainSegments(f, folders, MaxFolders))

\* ---- C20
\* C20, as stated: path resolution returns after a bounded number of folder
\* lookups for every stored folder, also when the parent references hold a
\* cycle.
C20_Original ==
  \A f \in FolderIds : folders[f].exists => ~PathDiverges(f, folders)

LowerFolderNames(p) ==
  {ToLowerCase(folders[g].name) :
     g \in {h \in FolderIds : folders[h].exists /\ folders[h].parent = p}}

LowerPageTitles(p, c) ==
  {ToLowerCase(docs[e].title) :
     e \in {h \in DocIds : docs[h].exists /\ docs[h].coll = c /\ docs[h].folder = p}}

\* new is the name a create gives when asked is requested among the
\* lower-case sibling names S: unused; asked itself when that is unused;
\* otherwise the copy of asked's base name with the number after the highest
\* copy number among S
UniqueFor(new, asked, S) ==
  /\ ToLowerCase(new) \notin S
  /\ ToLowerCase(asked) \notin S => new = asked
  /\ ToLowerCase(asked) \in S =>
       \E N \in 1..100 :
         /\ new = CopyName(CleanBaseName(asked), N)
         /\ \A n \in S : CopyNumberOf(n, CleanBaseName(asked)) < N
         /\ N > 1 => \E n \in S : CopyNumberOf(n, CleanBaseName(asked)) = N - 1

\* C22: the name of a created folder or page differs, without regard to
\* case, from the name of every sibling; it is the requested name when no
\* sibling bears it, else the base name with (copy) or (copy N), N one more
\* than the highest copy number among the siblings; the pathSegment of a
\* created folder is the normalization of its name.
C22_UniqueCreate ==
  [][/\ \A f \in FolderIds :
          (last'.op = "create" /\ last'.kind = "folder" /\ last'.id = f)
          => /\ ~folders[f].exists
             /\ folders'[f].exists
             /\ UniqueFor(folders'[f].name, last'.io.asked,
                          LowerFolderNames(folders'[f].parent))
             /\ folders'[f].pathSegment = slugify(folders'[f].name)
     /\ \A d \in DocIds :
          (last'.op = "create" /\ last'.kind = "page" /\ last'.id = d)
          => /\ ~docs[d].exists
             /\ docs'[d].exists
             /\ UniqueFor(docs'[d].title, last'.io.asked,
                          LowerPageTitles(docs'[d].folder, docs'[d].coll))]_vars

\* a folder B was asked for at the root next to the folders "b" and
\* "b (Copy 2)": it is "B (copy 3)" with segment b-copy-3
C22_Witness ==
  /\ last.op = "create"
  /\ last.kind = "folder"
  /\ last.io.asked = <<"B">>
  /\ \E f, g \in FolderIds \ {last.id} :
       /\ folders[f].exists /\ folders[f].parent = NoFolder
       /\ folders[g].exists /\ folders[g].parent = NoFolder
       /\ folders[f].name = <<"b">>
       /\ ToLowerCase(folders[g].name) = <<"b", " ", "(", "c", "o", "p", "y", " ", "2", ")">>
  /\ folders[last.id].parent = NoFolder
  /\ folders[last.id].name = <<"B", " ", "(", "c", "o", "p", "y", " ", "3", ")">>
  /\ folders[last.id].pathSegment = <<"b", "-", "c", "o", "p", "y", "-", "3">>

RedirectEntries(collection) ==
  {p \in DocIds \X (1..(2 * MAX_SLUG_HISTORY)) :
     /\ docs[p[1]].exists
     /\ docs[p[1]].coll = collection
     /\ p[2] <= Len(docs[p[1]].slugHistory)
     /\ docs[p[1]].slugHistory[p[2]].slug # <<>>
     /\ docs[p[1]].slugHistory[p[2]].slug # docs[p[1]].slug}

WithSlash(slug) == IF slug # <<>> /\ slug[1] = "/" THEN slug ELSE <<"/">> \o slug

RedirectPair(p) ==
  [from |-> WithSlash(docs[p[1]].slugHistory[p[2]].slug),
   to |-> WithSlash(docs[p[1]].slug)]

\* C24, as stated: in every store, the redirect map of a configured collection
\* lists each pair {from, to} as often as there are (document, history entry)
\* pairs that give it, and no pair has from equal to to.
C24_Original ==
  \A c \in CollectionSet :
    LET r == RedirectsFrom(docs, c, 1)
    IN /\ \A q \in {RedirectPair(p) : p \in RedirectEntries(c)}
                   \cup {r[k] : k \in 1..Len(r)} :
            Cardinality({k \in 1..Len(r) : r[k] = q})
              = Cardinality({p \in RedirectEntries(c) : RedirectPair(p) = q})
       /\ \A k \in 1..Len(r) : r[k].from # r[k].to

\* ---- C25
\* the answer of a rejected request: a 4xx response and the store as before
Rejected ==
  /\ last'.resp \in {"400", "404"}
  /\ folders' = folders
  /\ docs' = docs

\* the request names a collection that is not configured, or none
NoSuchCollection == last'.io.coll \notin CollectionSet

C26_Original ==
  [][(last'.op \in {"delete", "move"} /\ last'.kind = "page"
      /\ ~docs[last'.id].exists)
       => /\ last'.resp \in {"404", "400"}
          /\ folders' = folders
          /\ docs' = docs]_vars

\* ---- C27
\* the pathSegments path resolution can take from f upwards, root first: it
\* stops at a folder that is not there, whose lookup fails, or that has no
\* pathSegment
RECURSIVE ResolvedUp(_, _, _, _)
ResolvedUp(f, F, lost, fuel) ==
  IF f = NoFolder \/ fuel = 0 THEN <<>>
  ELSE IF ~F[f].exists \/ f \in lost \/ F[f].pathSegment = <<>> THEN <<>>
  ELSE ResolvedUp(F[f].parent, F, lost, fuel - 1) \o <<F[f].pathSegment>>

\* path resolution from f upwards comes to a folder that is not there or
\* whose lookup fails
RECURSIVE ReachesGap(_, _, _, _)
ReachesGap(f, F, lost, fuel) ==
  /\ f # NoFolder
  /\ fuel > 0
  /\ \/ ~F[f].exists
     \/ f \in lost
     \/ F[f].pathSegment # <<>> /\ ReachesGap(F[f].parent, F, lost, fuel - 1)

BrokenChain(f, lost) == ReachesGap(f, folders, lost, MaxFolders)

\* C27: a document written with a new pageSegment, or created, in a folder
\* whose chain holds a folder that is not there or whose lookup fails, is
\* stored all the same, and its slug is the '/'-join of the segments resolved
\* up to that folder and the document's own segment.
C27_FailSoft ==
  [][\A d \in DocIds :
       /\ (/\ last'.op = "editorSave" /\ last'.kind = "page" /\ last'.id = d
           /\ last'.field = "pageSegment"
           /\ slugify(last'.arg) \notin {<<>>, docs[d].pageSegment}
           /\ docs[d].exists
           /\ BrokenChain(docs[d].folder, last'.io.lost))
            => /\ last'.resp = "ok"
               /\ docs'[d].exists
               /\ docs'[d].pageSegment = slugify(last'.arg)
               /\ docs'[d].slug =
                    JoinNonEmpty(ResolvedUp(docs[d].folder, folders, last'.io.lost,
                                            MaxFolders)
                                 \o <<slugify(last'.arg)>>)
       /\ (/\ last'.op = "editorCreate" /\ last'.id = d /\ ~docs[d].exists
           /\ docs'[d].exists
           /\ BrokenChain(docs'[d].folder, {}))
            => /\ last'.resp = "ok"
               /\ docs'[d].slug =
                    JoinNonEmpty(ResolvedUp(docs'[d].folder, folders, {}, MaxFolders)
                                 \o <<docs'[d].pageSegment>>)]_vars

\* page c of folder b, whose parent a is not there or could not be read, was
\* saved with the segment B: its slug is b/b
C27_Witness ==
  /\ last.op = "editorSave"
  /\ last.field = "pageSegment"
  /\ last.arg = <<"B">>
  /\ last.resp = "ok"
  /\ last.id = 1
  /\ docs[1].folder = 2
  /\ folders[2].parent = 1
  /\ (~folders[1].exists \/ last.io.lost = {1})
  /\ docs[1].slug = <<"b", "/", "b">>
  /\ docs[1].slugHistory # <<>>

\* ---- C28
\* C28: the result of slugify is empty or has no hyphen at either end, no two
\* hyphens in a row, no blank or tab and no upper-case letter, and slugify
\* applied to a result of slugify gives that result again.
C28_Idempotent ==
  [][last'.op = "slugify"
       => /\ \A i \in 1..Len(last'.arg) :
               /\ last'.arg[i] \notin SpaceChars
               /\ last'.arg[i] \notin Range(Upper)
               /\ (last'.arg[i] = "-")
                    => (i > 1 /\ i < Len(last'.arg) /\ last'.arg[i + 1] # "-")
          /\ (last.op = "slugify") => (last'.arg = last.arg)]_vars

\* slugify was applied to its own result b and gave b again
C28_Witness ==
  /\ last.op = "slugify"
  /\ steps = 2
  /\ last.io.asked = <<"b">>
  /\ last.arg = <<"b">>

\* ---- C29
\* the last request was a flagged folder write of f that changed the
\* pathSegment or the parent and whose cascade the storage interrupted
Interrupted(f) ==
  /\ last.kind = "folder"
  /\ last.id = f
  /\ last.op \in {"move", "rename", "editUrl"}
  /\ last.us
  /\ last.resp = "ok"
  /\ last.io.failed # {}

\* the request is a regenerate for the folder the interrupted cascade was
\* about
Recovers(f) ==
  /\ Interrupted(f)
  /\ last'.op = "regenerate"
  /\ last'.id = f

\* the history of d has taken exactly one entry, with the slug d had before
\* (and lost its oldest entry when it was full)
OneEntryMore(d) ==
  /\ Len(docs'[d].slugHistory) =
       IF Len(docs[d].slugHistory) < MAX_SLUG_HISTORY
       THEN Len(docs[d].slugHistory) + 1 ELSE MAX_SLUG_HISTORY
  /\ docs'[d].slugHistory[1].slug = docs[d].slug
  /\ \A i \in 2..Len(docs'[d].slugHistory) :
       docs'[d].slugHistory[i] = docs[d].slugHistory[i - 1]

\* C29, as stated: a flagged folder write leaves every document with its old
\* slug or with the slug of its folder path and local segment, and with one
\* history entry more when the slug changed; a regenerate for the folder
\* after an interrupted cascade completes and leaves every document in the
\* folder or below it with the slug of its folder path and local segment,
\* with one history entry more (its slug before) when the cascade had not
\* reached it, and with the history as it was when it had.
C29_Original ==
  [][\A f \in FolderIds :
       /\ (Cascaded(f))
            => \A d \in DocIds :
                 docs[d].exists
                 => /\ docs'[d].slug \in
                         {docs[d].slug,
                          SlugAt(docs'[d].folder, LocalOf(docs[d]), folders')}
                    /\ docs'[d].slug # docs[d].slug /\ docs[d].slug # <<>>
                         => OneEntryMore(d)
       /\ (Recovers(f))
            => /\ last'.resp = "ok"
               /\ \A d \in RegenerateScope(f) :
                    /\ docs'[d].slug = SlugAt(docs[d].folder, LocalOf(docs[d]), folders)
                    /\ IF docs'[d].slug = docs[d].slug
                       THEN docs'[d].slugHistory = docs[d].slugHistory
                       ELSE docs[d].slug # <<>> => OneEntryMore(d)]_vars

\* C29 (amended): the same for the documents that have a non-empty local
\* segment; a document without one keeps its slug and its history through the
\* cascade and through the regenerate.
C29_Recovery ==
  [][\A f \in FolderIds :
       /\ (Cascaded(f))
            => \A d \in DocIds :
                 docs[d].exists
                 => /\ docs'[d].slug \in
                         {docs[d].slug,
                          SlugAt(docs'[d].folder, LocalOf(docs[d]), folders')}
                    /\ docs'[d].slug # docs[d].slug /\ docs[d].slug # <<>>
                         => OneEntryMore(d)
                    /\ LocalOf(docs[d]) = <<>>
                         => /\ docs'[d].slug = docs[d].slug
                            /\ docs'[d].slugHistory = docs[d].slugHistory
       /\ (Recovers(f))
            => /\ last'.resp = "ok"
               /\ \A d \in RegenerateScope(f) :
                    IF LocalOf(docs[d]) = <<>>
                    THEN /\ docs'[d].slug = docs[d].slug
                         /\ docs'[d].slugHistory = docs[d].slugHistory
                    ELSE /\ docs'[d].slug =
                              SlugAt(docs[d].folder, LocalOf(docs[d]), folders)
                         /\ IF docs'[d].slug = docs[d].slug
                            THEN docs'[d].slugHistory = docs[d].slugHistory
                            ELSE docs[d].slug # <<>> => OneEntryMore(d)]_vars

\* the URL segment of folder a was made b, the storage refused the cascade's
\* write of page c in a/b while post c in a was written, and the regenerate
\* for a that followed gave the page the slug b/b/c and recorded a/b/c once,
\* with reason regenerate, and left the post as the cascade had written it
C29_Witness ==
  /\ last.op = "regenerate"
  /\ last.id = 1
  /\ last.resp = "ok"
  /\ steps = MaxOps
  /\ folders[1].pathSegment = <<"b">>
  /\ folders[2].parent = 1
  /\ docs[1].folder = 2
  /\ docs[1].slug = BBC
  /\ docs[1].slugHistory = <<HistoryEntry(ABC, "regenerate")>>
  /\ docs[2].folder = 1
  /\ docs[2].slug = <<"b", "/", "c">>
  /\ docs[2].slugHistory = <<HistoryEntry(<<"a", "/", "c">>, "manual")>>

\* ---- C30
\* C30, as stated: a completed rename without updateSlugs changes the name of
\* the folder, or the title of the document, and nothing else in the store.
C30_Original ==
  [][(last'.op = "rename" /\ ~last'.us /\ last'.resp = "ok")
       => /\ (last'.kind = "folder")
               => /\ folders' = [folders EXCEPT ![last'.id].name = last'.arg]
                  /\ docs' = docs
          /\ (last'.kind = "page")
               => /\ docs' = [docs EXCEPT ![last'.id].title = last'.arg]
                  /\ folders' = folders]_vars

\* ---- C31
\* no entry of the history of d has the slug d has now
CurrentNotInHistory(D, d) ==
  \A i \in 1..Len(D[d].slugHistory) : D[d].slugHistory[i].slug # D[d].slug

\* C31, as stated: no request brings a document's current slug into its own
\* history; a document whose history does not hold its slug before a request
\* has a history that does not hold its slug after it.
C31_Original ==
  [][\A d \in DocIds :
       (docs[d].exists /\ docs'[d].exists /\ CurrentNotInHistory(docs, d))
       => CurrentNotInHistory(docs', d)]_vars

\* ---- C32
\* C32, as stated: a document produced by create or by duplicate has an
\* empty slugHistory, and the redirect map of its collection has no pair
\* that leads to its slug.
C32_Original ==
  [][\A d \in DocIds :
       (/\ last'.op \in {"create", "duplicate"}
        /\ last'.kind = "page"
        /\ last'.id = d
        /\ last'.resp = "ok"
        /\ ~docs[d].exists
        /\ docs'[d].exists)
       => /\ docs'[d].slugHistory = <<>>
          /\ RedirectsOfPage(docs'[d]) = <<>>]_vars

\* ---- C33
\* No lost history under interleaving: when a restore-slug request writes
\* after another slug-changing write to the same document has run since its
\* read, the slug that its write overwrites is in the document's final
\* slugHistory (up to the 20-entry bound).
C33_Original ==
  [][\A d \in DocIds :
       (/\ inflight # NoRead /\ inflight' = NoRead /\ inflight.id = d
        /\ last'.resp = "ok"
        /\ docs[d].slug # <<>>
        /\ docs[d].slug # docs'[d].slug
        /\ Len(docs'[d].slugHistory) < MAX_SLUG_HISTORY)
       => \E i \in 1..Len(docs'[d].slugHistory) :
            docs'[d].slugHistory[i].slug = docs[d].slug]_vars

\* ---- C34
\* Bounded fan-out of recursive delete: at every moment of a delete with
\* deleteChildren = true, at most 10 document deletes and at most 5 folder
\* deletes have been issued and not yet completed.
C34_Original ==
  /\ wave.pagesOut <= batchSize
  /\ wave.foldersOut <= FOLDER_BATCH_SIZE

C36_RegenerateTwice ==
  [][(/\ last.op = "regenerate" /\ last.resp = "ok"
      /\ last'.op = "regenerate" /\ last'.id = last.id)
     => \A d \in DocIds :
          /\ docs'[d].slug = docs[d].slug
          /\ docs'[d].slugHistory = docs[d].slugHistory]_vars

\* a second run has written documents, one of which the first run had given
\* a new slug
C36_Witness ==
  /\ last.op = "regenerate" /\ last.resp = "ok" /\ steps = MaxOps
  /\ last.io.count > 0
  /\ \E d \in DocIds :
       /\ docs[d].exists /\ docs[d].slugHistory # <<>>
       /\ docs[d].slugHistory[1].reason = "regenerate"

\* ---- C37
\* Tree assembler counts: for every folder node of the assembled tree,
\* pageCount is the number of page nodes in the folder's whole subtree (its
\* direct pages plus those of all its descendant folders), for flat records
\* that form a forest.
RECURSIVE PagesUnder(_, _)
PagesUnder(t, id) ==
  LET children == NodeOf(t.folderMap, t.pageNodes, id).children
  IN SumSeq([i \in 1..Len(children) |->
               IF children[i] \in DOMAIN t.pageNodes THEN 1
               ELSE PagesUnder(t, children[i])])

C37_Original ==
  tree # NoTree =>
    \A k \in DOMAIN tree.folderMap :
      tree.folderMap[k].pageCount = PagesUnder(tree, tree.folderMap[k].id)

====
